---- MODULE Spec2Model ----
(***************************************************************************)
(* Model of the simulated trading venue of the brokerage back end:         *)
(*   - the order ledger (exchange/models/order.py) and the order service   *)
(*     calls that drive it (exchange/services/order_service.py);           *)
(*   - the per-symbol price process                                        *)
(*     (exchange/services/exchange_simulator.py);                          *)
(*   - the matching loop of the simulator working on the persisted orders, *)
(*     with order cancellations arriving while a cycle is under way;       *)
(*   - the web socket sessions (exchange/consumers/                        *)
(*     market_data_consumer.py) with the connection and subscription       *)
(*     tables, and the dispatcher that forwards published price updates    *)
(*     to them (exchange/services/redis_pubsub_service.py);                *)
(*   - the placement of an order in one transaction                        *)
(*     (OrderService.place_order);                                         *)
(*   - the life cycle of the simulator: start_simulation, stop_simulation, *)
(*     its three loops, and the timed run of the management command        *)
(*     (exchange/management/commands/run_exchange_simulator.py).           *)
(*                                                                         *)
(* Decimal values are kept as integers.  Quantities and fill prices are    *)
(* whole units.  average_fill_price is the quotient of a Decimal division, *)
(* which Python rounds half-even: to the 28 significant digits of the      *)
(* context on the instance, to the 6 decimal places of the DecimalField    *)
(* once the order is saved and read back.  The model rounds it to the      *)
(* decimal places of the field and keeps it as an integer number of        *)
(* 1/DecimalScale units.                                                   *)
(***************************************************************************)
EXTENDS Integers, Sequences, FiniteSets, TLC

VARIABLES
    order,        \* the Order instance the ledger calls are made on
    executions,   \* OrderExecution rows of that order, oldest first
    published,    \* messages published on the order channel, oldest first
                  \* (of each order, where there are several)
    now,          \* timezone.now(), a logical clock
    call,         \* the last call made: operation and quantity passed
    result,       \* its outcome: "ok", the error raised, or the value returned
    before,       \* the order as it was when the last call started
    fills,        \* the (quantity, price) of every fill that succeeded
    price_data,   \* ExchangeSimulator.price_data: symbol -> price state
    update,       \* the dict the last _generate_price_update returned
    ticks,        \* number of price updates generated so far
    orders,       \* the rows of the Order table, by primary key
    order_executions, \* the OrderExecution rows of each order, oldest first
    market_data,  \* the newest MarketDataSnapshot row of each symbol, if any
    current_prices,   \* price_data[symbol]['current_price'] of the simulator
    pending_orders,   \* the instances the running cycle has still to process
    cycle_batch,  \* primary keys the last cycle read, in the order read
    processed,    \* what the last cycle did with each order so far
    consumers,    \* the MarketDataConsumer of each channel: user,
                  \* subscribed_symbols, its WebSocketConnection instance
    connections,  \* the rows of the WebSocketConnection table, by channel
    subscriptions,    \* the active SymbolSubscription rows: (user, symbol)
    sent,         \* what each consumer has sent to its client since the
                  \* last command of the client, oldest first
    mailbox,      \* channel layer: messages on their way to each consumer
    price_updates,    \* broker: messages published and not yet handled
    commands,     \* number of client commands received so far
    last,         \* the last client command: channel, type, argument
    handled,      \* the last message the dispatcher handled
    is_running,   \* ExchangeSimulator.is_running
    runs          \* the calls of start_simulation that started loops: what
                  \* has become of each and where each of its loops is

ledgerVars == <<order, executions, published, now, call, result, before, fills>>

priceVars == <<price_data, update, ticks>>

matchVars ==
    <<orders, order_executions, market_data, current_prices, pending_orders,
      cycle_batch, processed>>

sessionVars ==
    <<consumers, connections, subscriptions, sent, mailbox, price_updates,
      commands, last, handled>>

simVars == <<is_running, runs>>

vars == <<ledgerVars, priceVars, matchVars, sessionVars, simVars>>

----------------------------------------------------------------------------
(* Bounds *)

MaxQty == 6        \* largest order quantity
MaxFill == 3       \* largest fill quantity passed to fill()
MaxPrice == 2      \* larger of the two fill prices
MaxClock == 3      \* number of calls made on the order
MaxTicks == 2      \* number of price updates generated
MaxOrders == 2     \* number of rows of the Order table
MaxCommands == 4   \* number of commands the clients send
MaxUpdates == 1    \* number of price updates published to the broker
MaxPublished == 2  \* number of price updates one publisher publishes in a run
MaxStarts == 2     \* number of calls of start_simulation that start loops
max_subscriptions == 2     \* MAX_SUBSCRIPTIONS_PER_USER, 50 unless configured

----------------------------------------------------------------------------
(* Program constants *)

DecimalScale == 1000000

----------------------------------------------------------------------------
(* Nullable fields *)

None == <<>>

Some(v) == <<v>>

ValueOf(x) == x[1]

----------------------------------------------------------------------------
(* Decimal division: the quotient n/d rounded half-even to an integer *)

RoundDiv(n, d) ==
    LET nn == IF d < 0 THEN -n ELSE n
        dd == IF d < 0 THEN -d ELSE d
        q == nn \div dd
        r == nn % dd
    IN  IF 2 * r > dd \/ (2 * r = dd /\ q % 2 = 1) THEN q + 1 ELSE q

----------------------------------------------------------------------------
(* Order *)

ORDER_STATUS ==
    {"pending", "submitted", "partial", "filled", "cancelled", "rejected", "expired"}

Quantities == {2, MaxQty}

FillQuantities == -1 .. MaxFill

FillPrices == {1, MaxPrice}

NewOrder(qty) ==
    [ quantity |-> qty,
      filled_quantity |-> 0,
      average_fill_price |-> None,
      status |-> "pending",
      submitted_at |-> None,
      filled_at |-> None,
      cancelled_at |-> None,
      user |-> 1 ]

remaining_quantity(o) == o.quantity - o.filled_quantity

is_fully_filled(o) == o.filled_quantity >= o.quantity

(* is_active that takes a filled order for one that can still be filled *)
is_active_or_filled(o) ==
    o.status \in {"pending", "submitted", "partial", "filled"}

is_active(o) == o.status \in {"pending", "submitted", "partial"}

submit(o, t) == [o EXCEPT !.status = "submitted", !.submitted_at = Some(t)]

AverageOrZero(o) ==
    IF o.average_fill_price = None \/ o.average_fill_price = Some(0)
    THEN 0
    ELSE ValueOf(o.average_fill_price)

(* Order.fill: the order it leaves behind and the error it raises, if any. *)
(* A division by a zero filled_quantity raises after filled_quantity was   *)
(* assigned and before save().                                             *)
fill(o, fill_quantity, fill_price, t) ==
    IF ~is_active(o) THEN [order |-> o, result |-> "InvalidState"]
    ELSE IF fill_quantity > remaining_quantity(o)
    THEN [order |-> o, result |-> "OverFill"]
    ELSE
      LET total_filled_value ==
              o.filled_quantity * AverageOrZero(o)
              + fill_quantity * fill_price * DecimalScale
          o1 == [o EXCEPT !.filled_quantity = @ + fill_quantity]
      IN  IF o1.filled_quantity = 0
          THEN [order |-> o1, result |-> "DivisionError"]
          ELSE
            LET o2 == [o1 EXCEPT !.average_fill_price =
                          Some(RoundDiv(total_filled_value, o1.filled_quantity))]
            IN  IF is_fully_filled(o2)
                THEN [order |-> [o2 EXCEPT !.status = "filled",
                                           !.filled_at = Some(t)],
                      result |-> "ok"]
                ELSE [order |-> [o2 EXCEPT !.status = "partial"],
                      result |-> "ok"]

(* cancel without the check of is_active *)
cancel_unguarded(o, t) ==
    [order |-> [o EXCEPT !.status = "cancelled", !.cancelled_at = Some(t)],
     result |-> "ok"]

cancel(o, t) ==
    IF ~is_active(o) THEN [order |-> o, result |-> "InvalidState"]
    ELSE [order |-> [o EXCEPT !.status = "cancelled",
                              !.cancelled_at = Some(t)],
          result |-> "ok"]

(* reject that only acts on an active order *)
reject_if_active(o) ==
    IF is_active(o) THEN [o EXCEPT !.status = "rejected"] ELSE o

reject(o) == [o EXCEPT !.status = "rejected"]

to_websocket_message(o) ==
    [ type |-> "order_executed",
      status |-> o.status,
      quantity |-> o.quantity,
      filled_quantity |-> o.filled_quantity,
      price |-> IF o.average_fill_price = None \/ o.average_fill_price = Some(0)
                THEN None ELSE o.average_fill_price ]

----------------------------------------------------------------------------
(* Calls *)

(* A call and its arguments; the clock advances with every call, and      *)
(* MaxClock bounds the number of calls.                                    *)
Begin(op, q) ==
    /\ now < MaxClock
    /\ now' = now + 1
    /\ call' = [op |-> op, quantity |-> q]
    /\ before' = order
    /\ UNCHANGED <<simVars, priceVars, matchVars, sessionVars>>

Submit ==
    /\ Begin("submit", 0)
    /\ order' = submit(order, now + 1)
    /\ result' = "ok"
    /\ UNCHANGED <<executions, published, fills>>

Fill(q, p) ==
    LET r == fill(order, q, p, now + 1)
    IN  /\ Begin("fill", q)
        /\ order' = r.order
        /\ result' = r.result
        /\ fills' = IF r.result = "ok" THEN Append(fills, <<q, p>>) ELSE fills
        /\ UNCHANGED <<executions, published>>

Cancel ==
    LET r == cancel(order, now + 1)
    IN  /\ Begin("cancel", 0)
        /\ order' = r.order
        /\ result' = r.result
        /\ UNCHANGED <<executions, published, fills>>

Reject ==
    /\ Begin("reject", 0)
    /\ order' = reject(order)
    /\ result' = "ok"
    /\ UNCHANGED <<executions, published, fills>>

(* _publish_order_update that publishes the message twice *)
_publish_order_update_twice(o, redis_ok) ==
    IF redis_ok
    THEN published \o << [action |-> "order_update", user_id |-> o.user,
                          data |-> to_websocket_message(o)],
                         [action |-> "order_update", user_id |-> o.user,
                          data |-> to_websocket_message(o)] >>
    ELSE published

(* OrderService._publish_order_update: a failure of the broker is logged   *)
(* and swallowed.                                                          *)
_publish_order_update(o, redis_ok) ==
    IF redis_ok
    THEN Append(published, [action |-> "order_update", user_id |-> o.user,
                            data |-> to_websocket_message(o)])
    ELSE published

(* execute_order whose execution row is created outside the transaction,  *)
(* and stays when fill() raises                                            *)
ExecuteOrder_no_rollback(q, p, redis_ok) ==
    LET r == fill(order, q, p, now + 1)
    IN  /\ Begin("execute_order", q)
        /\ order' = r.order
        /\ result' = r.result
        /\ executions' = Append(executions, [quantity |-> q, price |-> p])
        /\ IF r.result = "ok"
           THEN /\ published' = _publish_order_update(r.order, redis_ok)
                /\ fills' = Append(fills, <<q, p>>)
           ELSE UNCHANGED <<published, fills>>

(* OrderService.execute_order: the execution row is created inside the     *)
(* transaction and rolled back with it when fill() raises.                 *)
ExecuteOrder(q, p, redis_ok) ==
    LET r == fill(order, q, p, now + 1)
    IN  /\ Begin("execute_order", q)
        /\ order' = r.order
        /\ result' = r.result
        /\ IF r.result = "ok"
           THEN /\ executions' = Append(executions, [quantity |-> q, price |-> p])
                /\ published' = _publish_order_update(r.order, redis_ok)
                /\ fills' = Append(fills, <<q, p>>)
           ELSE UNCHANGED <<executions, published, fills>>

(* cancel_order that publishes the order update whether or not the cancel  *)
(* went through                                                            *)
CancelOrder_publish_always(redis_ok) ==
    LET r == cancel(order, now + 1)
    IN  /\ Begin("cancel_order", 0)
        /\ order' = r.order
        /\ result' = IF r.result = "ok" THEN "True" ELSE "False"
        /\ published' = _publish_order_update(r.order, redis_ok)
        /\ UNCHANGED <<executions, fills>>

(* OrderService.cancel_order: returns True, or False when anything raised. *)
CancelOrder(redis_ok) ==
    IF ~is_active(order)
    THEN /\ Begin("cancel_order", 0)
         /\ result' = "False"
         /\ UNCHANGED <<order, executions, published, fills>>
    ELSE LET r == cancel(order, now + 1)
         IN  /\ Begin("cancel_order", 0)
             /\ order' = r.order
             /\ result' = IF r.result = "ok" THEN "True" ELSE "False"
             /\ published' = IF r.result = "ok"
                             THEN _publish_order_update(r.order, redis_ok)
                             ELSE published
             /\ UNCHANGED <<executions, fills>>

----------------------------------------------------------------------------
(* Price process.                                                          *)
(*                                                                         *)
(* Every quantity of a price update is proportional to the symbol's price  *)
(* (the deviation of the normal variate, the trend factor, the minimum     *)
(* price, the initial high and low), so each symbol's price is kept in     *)
(* units of its own base price divided by PriceUnit, PriceUnit being large *)
(* enough for MaxTicks multiplications by 0.01 and 0.001 to be exact, as   *)
(* they are on a Decimal.                                                  *)

Symbols == {"AAPL", "ADA-USD"}

PriceUnit == 1000 ^ MaxTicks

MinVolume == 10000

InitialVolumes == {100000}

Trends == {-1, 0, 1}

(* random.normalvariate(0, price * volatility), in percent of the price:   *)
(* the variate is unbounded whatever the volatility.                       *)
BaseChanges == {-100, -10, 0, 20}

(* random.uniform(0.001, 0.01), in thousandths *)
SpreadPercents == {1, 10}

(* random.randint(-50000, 100000) *)
VolumeChanges == {-50000, 100000}

Max(a, b) == IF a >= b THEN a ELSE b

Min(a, b) == IF a <= b THEN a ELSE b

_initialize_price_data(volume, trend) ==
    [ sym \in Symbols |->
        [ current_price |-> PriceUnit,
          previous_close |-> PriceUnit,
          daily_high |-> (PriceUnit \div 100) * 102,
          daily_low |-> (PriceUnit \div 100) * 98,
          volume |-> volume[sym],
          trend |-> trend[sym] ] ]

(* a price update without the minimum price check *)
minimum_price_check_dropped(new_price, current_price) == new_price

(* new_price = max(new_price, current_price * Decimal('0.01')) *)
minimum_price_check(new_price, current_price) ==
    Max(new_price, current_price \div 100)

(* ExchangeSimulator._generate_price_update for one symbol, given the      *)
(* values drawn from random: base change, spread, volume change and, when  *)
(* the trend is resampled, the new trend.                                  *)
_generate_price_update(sym, base_change, spread_percent, volume_change, resample, new_trend) ==
    LET price_info == price_data[sym]
        current_price == price_info.current_price
        trend_factor == price_info.trend * (current_price \div 1000)
        price_change == (current_price \div 100) * base_change + trend_factor
        new_price == minimum_price_check(current_price + price_change,
                                         current_price)
        daily_high == Max(price_info.daily_high, new_price)
        daily_low == Min(price_info.daily_low, new_price)
        change == new_price - price_info.previous_close
        change_percent ==
            IF price_info.previous_close # 0
            THEN RoundDiv(change, price_info.previous_close \div 100)
            ELSE 0
        half_spread == (new_price \div 2000) * spread_percent
        volume == Max(MinVolume, price_info.volume + volume_change)
    IN  [ price_info |->
            [ price_info EXCEPT
                !.current_price = new_price,
                !.daily_high = daily_high,
                !.daily_low = daily_low,
                !.volume = volume,
                !.trend = IF resample THEN new_trend ELSE @ ],
          update |->
            [ symbol |-> sym,
              price |-> new_price,
              change |-> change,
              change_percent |-> change_percent,
              volume |-> volume,
              bid |-> new_price - half_spread,
              ask |-> new_price + half_spread,
              high |-> daily_high,
              low |-> daily_low ] ]

Tick(sym) ==
    /\ ticks < MaxTicks
    /\ \E base_change \in BaseChanges, spread_percent \in SpreadPercents,
          volume_change \in VolumeChanges, resample \in BOOLEAN,
          new_trend \in Trends :
          LET r == _generate_price_update(sym, base_change, spread_percent,
                                          volume_change, resample, new_trend)
          IN  /\ price_data' = [price_data EXCEPT ![sym] = r.price_info]
              /\ update' = Some(r.update)
    /\ ticks' = ticks + 1
    /\ UNCHANGED <<simVars, ledgerVars, matchVars, sessionVars>>

----------------------------------------------------------------------------
(* Matching loop.                                                          *)
(*                                                                         *)
(* The Order table holds MaxOrders rows placed through place_order, some   *)
(* of them already executed in part.  One cycle of the loop reads the      *)
(* submitted and partial rows into instances and then works on the         *)
(* instances one by one, every one in a database call of its own; price    *)
(* updates and cancel_order calls of other tasks run between two of them.  *)
(* Prices are whole units here, as the fill prices are.  The broker takes  *)
(* every order update published here; what a failing broker changes is in  *)
(* ExecuteOrder and CancelOrder above.                                     *)

OrderIds == 1 .. MaxOrders

(* a symbol orders can be placed for and the simulator has no price of *)
OrderSymbols == Symbols \cup {"XYZ"}

(* the symbol of the simulator the orders of the model are placed for; the *)
(* prices of the other symbols stay at their base price                    *)
TradedSymbols == {"AAPL"}

Quotes == {[price |-> p, bid |-> p - 1, ask |-> p + 1] : p \in {2, 2 * MaxPrice}}

LimitPrices == {3}

(* OrderService.place_order: the row of a valid order, submitted *)
place_order(user, symbol, side, order_type, price, quantity) ==
    [id |-> 0, user |-> user, symbol |-> symbol, side |-> side,
     order_type |-> order_type, price |-> price]
    @@ submit(NewOrder(quantity), 0)

(* the rows place_order leaves for the orders of the model, and the same   *)
(* rows after execute_order has filled one unit at a limit price           *)
OrderBook ==
    LET placed ==
            {place_order(1, sym, side, order_type,
                         IF order_type = "limit" THEN Some(price) ELSE None,
                         MaxQty) :
                sym \in TradedSymbols, side \in {"buy", "sell"},
                order_type \in {"market", "limit"}, price \in LimitPrices}
            \cup {place_order(1, "XYZ", "buy", "limit", Some(price), MaxQty) :
                    price \in LimitPrices}
        partly == {fill(o, 1, price, 0).order :
                     o \in {p \in placed : p.symbol \in TradedSymbols},
                     price \in LimitPrices}
    IN  placed \cup partly

(* the OrderExecution rows of a row of OrderBook *)
ExecutionsOf(o) ==
    IF o.filled_quantity = 0 THEN <<>>
    ELSE <<[quantity |-> o.filled_quantity,
            price |-> ValueOf(o.average_fill_price) \div DecimalScale]>>

(* redis_client.publish of an order update on the channel of the orders,   *)
(* kept by order; a failure of the broker is logged and swallowed.         *)
publish(channel, o, redis_ok) ==
    IF redis_ok
    THEN Append(channel, [action |-> "order_update", user_id |-> o.user,
                          data |-> to_websocket_message(o)])
    ELSE channel

(* Order.objects.filter(status__in=['submitted', 'partial']), ordered by   *)
(* -created_at: the newest row first                                       *)
RECURSIVE get_pending_orders(_)
get_pending_orders(i) ==
    IF i = 0 THEN <<>>
    ELSE (IF orders[i].status \in {"submitted", "partial"}
          THEN <<orders[i]>> ELSE <<>>)
         \o get_pending_orders(i - 1)

(* OrderService.execute_order on the instance o: the instance after fill() *)
(* and whether the transaction committed ("ok") or what rolled it back.    *)
execute_order(o, quantity, price) ==
    LET r == fill(o, quantity, price, now)
    IN  [order |-> r.order, result |-> r.result,
         quantity |-> quantity, price |-> price]

(* simulate_market_order_execution that executes at the bid for a buy and  *)
(* at the ask for a sell                                                   *)
simulate_market_order_execution_sides_swapped(o) ==
    IF market_data[o.symbol] = None
    THEN [order |-> o, result |-> "NoMarketData", quantity |-> 0, price |-> 0]
    ELSE LET snapshot == ValueOf(market_data[o.symbol])
             execution_price ==
                 IF o.side = "buy" THEN snapshot.bid ELSE snapshot.ask
         IN  execute_order(o, o.quantity, execution_price)

(* OrderService.simulate_market_order_execution: the quantity executed is  *)
(* the quantity of the order; every exception is logged and swallowed.     *)
simulate_market_order_execution(o) ==
    IF market_data[o.symbol] = None
    THEN [order |-> o, result |-> "NoMarketData", quantity |-> 0, price |-> 0]
    ELSE LET snapshot == ValueOf(market_data[o.symbol])
             execution_price ==
                 IF o.side = "buy" THEN snapshot.ask ELSE snapshot.bid
         IN  execute_order(o, o.quantity, execution_price)

(* _check_limit_order that executes a triggered order at the current price *)
_check_limit_order_at_current_price(o) ==
    IF o.symbol \notin DOMAIN current_prices
    THEN [order |-> o, result |-> "KeyError", quantity |-> 0, price |-> 0]
    ELSE LET price == current_prices[o.symbol]
             should_execute ==
                 \/ o.side = "buy" /\ price <= ValueOf(o.price)
                 \/ o.side = "sell" /\ price >= ValueOf(o.price)
         IN  IF should_execute
             THEN execute_order(o, remaining_quantity(o), price)
             ELSE [order |-> o, result |-> "NotTriggered",
                   quantity |-> 0, price |-> 0]

(* ExchangeSimulator._check_limit_order: the trigger is tested against the *)
(* simulator's own current price; every exception is logged and swallowed. *)
_check_limit_order(o) ==
    IF o.symbol \notin DOMAIN current_prices
    THEN [order |-> o, result |-> "KeyError", quantity |-> 0, price |-> 0]
    ELSE LET price == current_prices[o.symbol]
             should_execute ==
                 \/ o.side = "buy" /\ price <= ValueOf(o.price)
                 \/ o.side = "sell" /\ price >= ValueOf(o.price)
         IN  IF should_execute
             THEN execute_order(o, remaining_quantity(o), ValueOf(o.price))
             ELSE [order |-> o, result |-> "NotTriggered",
                   quantity |-> 0, price |-> 0]

(* the body of the loop over pending_orders, for one instance *)
process_order(o) ==
    IF o.order_type = "market" THEN simulate_market_order_execution(o)
    ELSE IF o.order_type = "limit" THEN _check_limit_order(o)
    ELSE [order |-> o, result |-> "Skipped", quantity |-> 0, price |-> 0]

(* _price_generation_loop for one symbol: the new price becomes the        *)
(* simulator's current price and is stored as the newest snapshot.         *)
PriceUpdate(sym, quote) ==
    /\ current_prices' = [current_prices EXCEPT ![sym] = quote.price]
    /\ market_data' = [market_data EXCEPT
                          ![sym] = Some([bid |-> quote.bid, ask |-> quote.ask])]
    /\ UNCHANGED <<simVars, orders, order_executions, pending_orders, cycle_batch,
                   processed, ledgerVars, priceVars, sessionVars>>

(* _process_pending_orders up to the loop: the batch is read once *)
StartCycle ==
    /\ pending_orders = <<>>
    /\ pending_orders' = get_pending_orders(MaxOrders)
    /\ cycle_batch' = [k \in 1 .. Len(pending_orders') |-> pending_orders'[k].id]
    /\ processed' = <<>>
    /\ UNCHANGED <<simVars, orders, order_executions, market_data, current_prices,
                   ledgerVars, priceVars, sessionVars>>

(* the loop of _process_pending_orders left at the first order whose       *)
(* processing fails                                                        *)
ProcessNextOrder_stop_on_failure ==
    /\ pending_orders # <<>>
    /\ LET o == Head(pending_orders)
           r == process_order(o)
       IN  /\ IF r.result = "ok"
              THEN /\ orders' = [orders EXCEPT ![o.id] = r.order]
                   /\ order_executions' =
                          [order_executions EXCEPT ![o.id] =
                              Append(@, [quantity |-> r.quantity, price |-> r.price])]
                   /\ published' =
                          [published EXCEPT ![o.id] = publish(@, r.order, TRUE)]
              ELSE UNCHANGED <<orders, order_executions, published>>
           /\ processed' = Append(processed, [order_id |-> o.id, result |-> r.result])
           /\ pending_orders' =
                  IF r.result \in {"ok", "NotTriggered"}
                  THEN Tail(pending_orders) ELSE <<>>
    /\ UNCHANGED <<simVars, cycle_batch, market_data, current_prices, priceVars,
                   sessionVars,
                   order, executions, now, call, result, before, fills>>

(* one turn of the loop of _process_pending_orders: the instance at the    *)
(* head of the batch is processed, and save() writes the whole instance    *)
(* over the row when the execution commits.                                *)
ProcessNextOrder ==
    /\ pending_orders # <<>>
    /\ LET o == Head(pending_orders)
           r == process_order(o)
       IN  /\ IF r.result = "ok"
              THEN /\ orders' = [orders EXCEPT ![o.id] = r.order]
                   /\ order_executions' =
                          [order_executions EXCEPT ![o.id] =
                              Append(@, [quantity |-> r.quantity, price |-> r.price])]
                   /\ published' =
                          [published EXCEPT ![o.id] = publish(@, r.order, TRUE)]
              ELSE UNCHANGED <<orders, order_executions, published>>
           /\ processed' = Append(processed, [order_id |-> o.id, result |-> r.result])
           /\ pending_orders' = Tail(pending_orders)
    /\ UNCHANGED <<simVars, cycle_batch, market_data, current_prices, priceVars,
                   sessionVars,
                   order, executions, now, call, result, before, fills>>

(* OrderService.cancel_order on an instance just read from the row *)
CancelOrderById(id) ==
    LET r == cancel(orders[id], now)
    IN  /\ is_active(orders[id])
        /\ orders' = [orders EXCEPT ![id] = r.order]
        /\ published' = [published EXCEPT ![id] = publish(@, r.order, TRUE)]
        /\ UNCHANGED <<simVars, order_executions, market_data, current_prices,
                       pending_orders, cycle_batch, processed, priceVars,
                       sessionVars,
                       order, executions, now, call, result, before, fills>>

----------------------------------------------------------------------------
(* Sessions.                                                               *)
(*                                                                         *)
(* Every channel has a MarketDataConsumer that has accepted its connection *)
(* and created its WebSocketConnection row.  The consumer keeps the user,  *)
(* the subscribed symbols and its instance of the row in memory; the       *)
(* dispatcher (RedisPubSubService) only sees the tables.                   *)

Channels == {"ch1", "ch2"}

Users == {1, 2}

(* no token, a token the validator refuses, and one token per user *)
Tokens == {"", "expired", "token1", "token2"}

(* the symbols lists of the subscribe and unsubscribe commands *)
SymbolLists == {<<>>, <<"AAPL">>, <<"msft">>}

(* the symbols price updates are published for *)
PushSymbols == {"AAPL", "MSFT"}

(* the fields of a place_order command; a field the command does not have *)
(* is None                                                                 *)
OrderRequest(symbol, side, quantity, order_type, price) ==
    [symbol |-> symbol, side |-> side, quantity |-> quantity,
     order_type |-> order_type, price |-> price]

(* the place_order commands: complete, and without quantity *)
OrderRequests ==
    {OrderRequest(Some("AAPL"), Some("buy"), Some(MaxQty), None, None),
     OrderRequest(Some("AAPL"), Some("buy"), None, None, None)}

(* str.upper on the symbols of the model *)
upper(symbol) == IF symbol = "msft" THEN "MSFT" ELSE symbol

(* the token validator: the user of a valid token, None for any other *)
get_user_from_token(token) ==
    IF token = "token1" THEN Some(1)
    ELSE IF token = "token2" THEN Some(2)
    ELSE None

(* MarketDataConsumer.authenticate_user: an exception of the validator is  *)
(* turned into None                                                        *)
authenticate_user(token) == get_user_from_token(token)

error(message) == [type |-> "error", code |-> "error", message |-> message]

(* MarketDataConsumer.create_connection_record *)
create_connection_record ==
    [user |-> None, status |-> "connected", subscription_count |-> 0]

(* MarketDataConsumer.__init__ and connect *)
NewConsumer ==
    [user |-> None, subscribed_symbols |-> {},
     connection |-> create_connection_record, closed |-> FALSE]

(* WebSocketConnection.authenticate on the instance, and the row after it: *)
(* update_activity saves with update_fields=['last_activity'], so neither  *)
(* user nor status reaches the row.                                        *)
authenticate(connection, row, user) ==
    [connection |-> [connection EXCEPT !.user = Some(user),
                                       !.status = "authenticated"],
     row |-> row]

(* MarketDataConsumer.load_existing_subscriptions: the active rows of the  *)
(* user become the subscribed symbols; when there are any, the instance is *)
(* saved whole.                                                            *)
load_existing_subscriptions(user, connection, row) ==
    LET symbols == {sub[2] : sub \in {x \in subscriptions : x[1] = user}}
        counted == [connection EXCEPT !.subscription_count = Cardinality(symbols)]
    IN  [subscribed_symbols |-> symbols,
         connection |-> IF symbols # {} THEN counted ELSE connection,
         row |-> IF symbols # {} THEN counted ELSE row]

(* handle_subscribe with the subscription limit left unchecked *)
subscription_limit_unchecked(subscribed_symbols, symbols) == FALSE

(* the subscription limit check of handle_subscribe:                       *)
(* len(self.subscribed_symbols) + len(symbols) > self.max_subscriptions    *)
subscription_limit_exceeded(subscribed_symbols, symbols) ==
    Cardinality(subscribed_symbols) + Len(symbols) > max_subscriptions

(* the loop of handle_subscribe over the symbols of the command, from the  *)
(* state st: subscribe_to_symbol for every symbol that is not, as written, *)
(* among the subscribed symbols                                            *)
RECURSIVE subscribe_symbols(_, _, _)
subscribe_symbols(user, symbols, st) ==
    IF symbols = <<>> THEN st
    ELSE LET symbol == Head(symbols)
         IN  IF symbol \in st.subscribed_symbols
             THEN subscribe_symbols(user, Tail(symbols), st)
             ELSE subscribe_symbols(user, Tail(symbols),
                    [subscribed_symbols |-> st.subscribed_symbols \cup {upper(symbol)},
                     subscription_count |-> st.subscription_count + 1,
                     subscriptions |-> st.subscriptions \cup {<<user, upper(symbol)>>},
                     done |-> Append(st.done, symbol)])

(* the loop of handle_unsubscribe: unsubscribe_from_symbol for every       *)
(* symbol that is, as written, among the subscribed symbols; it does       *)
(* nothing when the user has no active row for the symbol                  *)
RECURSIVE unsubscribe_symbols(_, _, _)
unsubscribe_symbols(user, symbols, st) ==
    IF symbols = <<>> THEN st
    ELSE LET symbol == Head(symbols)
         IN  IF symbol \notin st.subscribed_symbols
             THEN unsubscribe_symbols(user, Tail(symbols), st)
             ELSE IF <<user, upper(symbol)>> \notin st.subscriptions
             THEN unsubscribe_symbols(user, Tail(symbols),
                    [st EXCEPT !.done = Append(@, symbol)])
             ELSE unsubscribe_symbols(user, Tail(symbols),
                    [subscribed_symbols |-> st.subscribed_symbols \ {upper(symbol)},
                     subscription_count |-> Max(0, st.subscription_count - 1),
                     subscriptions |-> st.subscriptions \ {<<user, upper(symbol)>>},
                     done |-> Append(st.done, symbol)])

(* a command arrives on an open connection *)
Receive(ch, type, argument) ==
    /\ ~consumers[ch].closed
    /\ commands < MaxCommands
    /\ commands' = commands + 1
    /\ last' = [channel |-> ch, type |-> type, argument |-> argument]
    /\ UNCHANGED <<simVars, priceVars, order_executions, market_data, current_prices,
                   pending_orders, cycle_batch, processed,
                   order, executions, now, call, result, before, fills>>

(* the reply to the command; what was sent before the command is dropped   *)
(* from the record                                                         *)
Reply(ch, message) == sent' = [sent EXCEPT ![ch] = <<message>>]

(* the command is not replied to *)
NoReply(ch) == sent' = [sent EXCEPT ![ch] = <<>>]

(* handle_auth that assigns self.user before it looks at what the          *)
(* validator returned                                                      *)
HandleAuth_user_assigned_first(ch, token) ==
    /\ Receive(ch, "auth", token)
    /\ UNCHANGED <<subscriptions, mailbox, price_updates, handled, orders, published>>
    /\ IF token = ""
       THEN /\ Reply(ch, error("Token required for authentication"))
            /\ UNCHANGED <<consumers, connections>>
       ELSE IF authenticate_user(token) = None
       THEN /\ Reply(ch, error("Invalid token"))
            /\ consumers' = [consumers EXCEPT ![ch].user = None]
            /\ UNCHANGED connections
       ELSE LET user == ValueOf(authenticate_user(token))
                a == authenticate(consumers[ch].connection, connections[ch], user)
                l == load_existing_subscriptions(user, a.connection, a.row)
            IN  /\ consumers' = [consumers EXCEPT ![ch] =
                       [@ EXCEPT !.user = Some(user),
                                 !.subscribed_symbols = l.subscribed_symbols,
                                 !.connection = l.connection]]
                /\ connections' = [connections EXCEPT ![ch] = l.row]
                /\ Reply(ch, [type |-> "auth_success", user_id |-> user])

(* MarketDataConsumer.handle_auth *)
HandleAuth(ch, token) ==
    /\ Receive(ch, "auth", token)
    /\ UNCHANGED <<subscriptions, mailbox, price_updates, handled, orders, published>>
    /\ IF token = ""
       THEN /\ Reply(ch, error("Token required for authentication"))
            /\ UNCHANGED <<consumers, connections>>
       ELSE IF authenticate_user(token) = None
       THEN /\ Reply(ch, error("Invalid token"))
            /\ UNCHANGED <<consumers, connections>>
       ELSE LET user == ValueOf(authenticate_user(token))
                a == authenticate(consumers[ch].connection, connections[ch], user)
                l == load_existing_subscriptions(user, a.connection, a.row)
            IN  /\ consumers' = [consumers EXCEPT ![ch] =
                       [@ EXCEPT !.user = Some(user),
                                 !.subscribed_symbols = l.subscribed_symbols,
                                 !.connection = l.connection]]
                /\ connections' = [connections EXCEPT ![ch] = l.row]
                /\ Reply(ch, [type |-> "auth_success", user_id |-> user])

(* handle_subscribe without the check of self.user *)
HandleSubscribe_without_auth_check(ch, symbols) ==
    /\ Receive(ch, "subscribe", symbols)
    /\ UNCHANGED <<mailbox, price_updates, handled, orders, published>>
    /\ IF symbols = <<>>
       THEN /\ Reply(ch, error("No symbols provided"))
            /\ UNCHANGED <<consumers, connections, subscriptions>>
       ELSE IF subscription_limit_exceeded(consumers[ch].subscribed_symbols,
                                           symbols)
       THEN /\ Reply(ch, error("Subscription limit exceeded"))
            /\ UNCHANGED <<consumers, connections, subscriptions>>
       ELSE LET user == IF consumers[ch].user = None THEN 0
                        ELSE ValueOf(consumers[ch].user)
                st == subscribe_symbols(user, symbols,
                        [subscribed_symbols |-> consumers[ch].subscribed_symbols,
                         subscription_count |-> consumers[ch].connection.subscription_count,
                         subscriptions |-> subscriptions,
                         done |-> <<>>])
            IN  /\ consumers' = [consumers EXCEPT ![ch] =
                       [@ EXCEPT !.subscribed_symbols = st.subscribed_symbols,
                                 !.connection.subscription_count = st.subscription_count]]
                /\ connections' = [connections EXCEPT
                       ![ch].subscription_count = st.subscription_count]
                /\ subscriptions' = st.subscriptions
                /\ IF st.done # <<>>
                   THEN Reply(ch, [type |-> "subscribed", symbols |-> st.done,
                                   count |-> Len(st.done)])
                   ELSE NoReply(ch)

(* MarketDataConsumer.handle_subscribe *)
HandleSubscribe(ch, symbols) ==
    /\ Receive(ch, "subscribe", symbols)
    /\ UNCHANGED <<mailbox, price_updates, handled, orders, published>>
    /\ IF consumers[ch].user = None
       THEN /\ Reply(ch, error("Authentication required"))
            /\ UNCHANGED <<consumers, connections, subscriptions>>
       ELSE IF symbols = <<>>
       THEN /\ Reply(ch, error("No symbols provided"))
            /\ UNCHANGED <<consumers, connections, subscriptions>>
       ELSE IF subscription_limit_exceeded(consumers[ch].subscribed_symbols,
                                           symbols)
       THEN /\ Reply(ch, error("Subscription limit exceeded"))
            /\ UNCHANGED <<consumers, connections, subscriptions>>
       ELSE LET st == subscribe_symbols(ValueOf(consumers[ch].user), symbols,
                        [subscribed_symbols |-> consumers[ch].subscribed_symbols,
                         subscription_count |-> consumers[ch].connection.subscription_count,
                         subscriptions |-> subscriptions,
                         done |-> <<>>])
            IN  /\ consumers' = [consumers EXCEPT ![ch] =
                       [@ EXCEPT !.subscribed_symbols = st.subscribed_symbols,
                                 !.connection.subscription_count = st.subscription_count]]
                /\ connections' = [connections EXCEPT
                       ![ch].subscription_count = st.subscription_count]
                /\ subscriptions' = st.subscriptions
                /\ IF st.done # <<>>
                   THEN Reply(ch, [type |-> "subscribed", symbols |-> st.done,
                                   count |-> Len(st.done)])
                   ELSE NoReply(ch)

(* handle_unsubscribe that answers with an error when none of the symbols  *)
(* was subscribed                                                          *)
HandleUnsubscribe_error_for_non_member(ch, symbols) ==
    /\ Receive(ch, "unsubscribe", symbols)
    /\ UNCHANGED <<mailbox, price_updates, handled, orders, published>>
    /\ IF consumers[ch].user = None
       THEN /\ Reply(ch, error("Authentication required"))
            /\ UNCHANGED <<consumers, connections, subscriptions>>
       ELSE IF symbols = <<>>
       THEN /\ Reply(ch, error("No symbols provided"))
            /\ UNCHANGED <<consumers, connections, subscriptions>>
       ELSE LET st == unsubscribe_symbols(ValueOf(consumers[ch].user), symbols,
                        [subscribed_symbols |-> consumers[ch].subscribed_symbols,
                         subscription_count |-> consumers[ch].connection.subscription_count,
                         subscriptions |-> subscriptions,
                         done |-> <<>>])
            IN  /\ consumers' = [consumers EXCEPT ![ch] =
                       [@ EXCEPT !.subscribed_symbols = st.subscribed_symbols,
                                 !.connection.subscription_count = st.subscription_count]]
                /\ connections' = [connections EXCEPT
                       ![ch].subscription_count = st.subscription_count]
                /\ subscriptions' = st.subscriptions
                /\ IF st.done # <<>>
                   THEN Reply(ch, [type |-> "unsubscribed", symbols |-> st.done])
                   ELSE Reply(ch, error("Not subscribed"))

(* MarketDataConsumer.handle_unsubscribe *)
HandleUnsubscribe(ch, symbols) ==
    /\ Receive(ch, "unsubscribe", symbols)
    /\ UNCHANGED <<mailbox, price_updates, handled, orders, published>>
    /\ IF consumers[ch].user = None
       THEN /\ Reply(ch, error("Authentication required"))
            /\ UNCHANGED <<consumers, connections, subscriptions>>
       ELSE IF symbols = <<>>
       THEN /\ Reply(ch, error("No symbols provided"))
            /\ UNCHANGED <<consumers, connections, subscriptions>>
       ELSE LET st == unsubscribe_symbols(ValueOf(consumers[ch].user), symbols,
                        [subscribed_symbols |-> consumers[ch].subscribed_symbols,
                         subscription_count |-> consumers[ch].connection.subscription_count,
                         subscriptions |-> subscriptions,
                         done |-> <<>>])
            IN  /\ consumers' = [consumers EXCEPT ![ch] =
                       [@ EXCEPT !.subscribed_symbols = st.subscribed_symbols,
                                 !.connection.subscription_count = st.subscription_count]]
                /\ connections' = [connections EXCEPT
                       ![ch].subscription_count = st.subscription_count]
                /\ subscriptions' = st.subscriptions
                /\ IF st.done # <<>>
                   THEN Reply(ch, [type |-> "unsubscribed", symbols |-> st.done])
                   ELSE NoReply(ch)

(* Python truth of a number that may be missing: None and 0 are false *)
truthy(x) == x # None /\ ValueOf(x) # 0

(* dict.get('order_type', 'market') *)
order_type_of(order_data) ==
    IF order_data.order_type = None THEN "market"
    ELSE ValueOf(order_data.order_type)

(* OrderService._validate_order_data: "ok" or the message of the           *)
(* ValueError it raises                                                    *)
_validate_order_data(order_data) ==
    IF order_data.symbol = None THEN "Missing required field: symbol"
    ELSE IF order_data.side = None THEN "Missing required field: side"
    ELSE IF ~truthy(order_data.quantity) THEN "Missing required field: quantity"
    ELSE IF ValueOf(order_data.side) \notin {"buy", "sell"} THEN "Invalid order side"
    ELSE IF ValueOf(order_data.quantity) <= 0 THEN "Invalid quantity format"
    ELSE IF /\ order_type_of(order_data) \in {"limit", "stop_limit"}
            /\ ~truthy(order_data.price)
    THEN "Price required for limit orders"
    ELSE IF truthy(order_data.price) /\ ValueOf(order_data.price) <= 0
    THEN "Invalid price format"
    ELSE "ok"

(* MarketDataConsumer.place_order: the order OrderService.place_order      *)
(* creates and submits, None when the service raises                       *)
consumer_place_order(user, order_data) ==
    IF _validate_order_data(order_data) # "ok" THEN None
    ELSE Some(place_order(user, upper(ValueOf(order_data.symbol)),
                          ValueOf(order_data.side), order_type_of(order_data),
                          IF truthy(order_data.price) THEN order_data.price
                          ELSE None,
                          ValueOf(order_data.quantity)))

(* MarketDataConsumer.handle_place_order: when place_order returns None    *)
(* nothing is sent.                                                        *)
HandlePlaceOrder(ch, request) ==
    /\ Receive(ch, "place_order", request)
    /\ UNCHANGED <<consumers, connections, subscriptions, mailbox,
                   price_updates, handled>>
    /\ IF consumers[ch].user = None
       THEN /\ Reply(ch, error("Authentication required"))
            /\ UNCHANGED <<orders, published>>
       ELSE IF \/ request.symbol = None
               \/ request.side = None
               \/ ~truthy(request.quantity)
       THEN /\ Reply(ch, error("Missing required order fields"))
            /\ UNCHANGED <<orders, published>>
       ELSE LET placed == consumer_place_order(ValueOf(consumers[ch].user),
                                               request)
                o == [ValueOf(placed) EXCEPT !.id = Len(orders) + 1]
            IN  IF placed = None
                THEN /\ NoReply(ch)
                     /\ UNCHANGED <<orders, published>>
                ELSE /\ orders' = Append(orders, o)
                     /\ published' = Append(published,
                            [action |-> "new_order", order_id |-> o.id,
                             user_id |-> o.user])
                     /\ Reply(ch, [type |-> "order_placed", order_id |-> o.id,
                                   status |-> o.status])

(* json.loads on the payloads of the model: what it returns, or the error  *)
(* it raises                                                               *)
json_loads(text_data) ==
    IF text_data = "{\"type\": \"ping\"}" THEN [kind |-> "dict", type |-> Some("ping")]
    ELSE IF text_data = "{\"type\": \"bogus\"}" THEN [kind |-> "dict", type |-> Some("bogus")]
    ELSE IF text_data = "{}" THEN [kind |-> "dict", type |-> None]
    ELSE IF text_data = "[]" THEN [kind |-> "list", type |-> None]
    ELSE [kind |-> "JSONDecodeError", type |-> None]

(* MarketDataConsumer.receive for a payload that is none of the commands   *)
(* above: data.get of a value that is not a dict raises AttributeError,    *)
(* which the last except clause answers.                                   *)
ReceiveText(ch, text_data) ==
    /\ Receive(ch, "text", text_data)
    /\ UNCHANGED <<consumers, connections, subscriptions, mailbox,
                   price_updates, handled, orders, published>>
    /\ LET data == json_loads(text_data)
       IN  IF data.kind = "JSONDecodeError"
           THEN Reply(ch, error("Invalid JSON format"))
           ELSE IF data.kind # "dict"
           THEN Reply(ch, error("Internal server error"))
           ELSE IF data.type = Some("ping")
           THEN Reply(ch, [type |-> "pong"])
           ELSE IF data.type = None
           THEN Reply(ch, error("Unknown message type: None"))
           ELSE Reply(ch, error("Unknown message type: bogus"))

(* MarketDataService.publish_price_update: the broker takes the message of *)
(* one more price update, told from the others by its price, which is the  *)
(* number of the update among those published; no more than limit updates  *)
(* are published                                                           *)
publish_price_update(symbol, limit) ==
    /\ ticks < limit
    /\ ticks' = ticks + 1
    /\ price_updates' = Append(price_updates,
           [type |-> "price_update", symbol |-> symbol, price |-> ticks + 1])
    /\ UNCHANGED <<simVars, consumers, connections, subscriptions, sent, mailbox,
                   commands, last, handled, ledgerVars, price_data, update,
                   matchVars>>

(* a price update is published *)
PublishPriceUpdate(symbol) == publish_price_update(symbol, MaxUpdates)

(* RedisPubSubService._get_subscribed_users *)
_get_subscribed_users(symbol) ==
    {sub[1] : sub \in {x \in subscriptions : x[2] = upper(symbol)}}

(* RedisPubSubService._get_user_connections *)
_get_user_connections(user_id) ==
    {ch \in Channels : /\ connections[ch].user = Some(user_id)
                       /\ connections[ch].status = "authenticated"}

(* the consumers that are authenticated and hold the symbol among their    *)
(* subscribed symbols                                                      *)
SubscribedSessions(symbol) ==
    {ch \in Channels : /\ ~consumers[ch].closed
                       /\ consumers[ch].user # None
                       /\ symbol \in consumers[ch].subscribed_symbols}

(* RedisPubSubService._handle_price_update for the oldest message of the   *)
(* broker: one send_price_update message to the channel of every           *)
(* authenticated connection row of every user with an active subscription  *)
HandlePriceUpdate ==
    /\ price_updates # <<>>
    /\ LET data == Head(price_updates)
           targets == UNION {_get_user_connections(user_id) :
                               user_id \in _get_subscribed_users(data.symbol)}
       IN  /\ mailbox' = [ch \in Channels |->
                  IF ch \in targets
                  THEN Append(mailbox[ch],
                              [type |-> "send_price_update",
                               symbol |-> data.symbol,
                               price_data |-> data])
                  ELSE mailbox[ch]]
           /\ handled' = Some([symbol |-> data.symbol,
                               targets |-> targets,
                               subscribed |-> SubscribedSessions(data.symbol)])
    /\ price_updates' = Tail(price_updates)
    /\ UNCHANGED <<simVars, consumers, connections, subscriptions, sent, commands, last,
                   ledgerVars, priceVars, matchVars>>

(* send_price_update that forwards whatever the dispatcher sends *)
send_price_update_unfiltered(ch, symbol, data) ==
    Append(sent[ch], data)

(* MarketDataConsumer.send_price_update: what the client has been sent     *)
(* after it                                                                *)
send_price_update(ch, symbol, data) ==
    IF symbol \in consumers[ch].subscribed_symbols
    THEN Append(sent[ch], data)
    ELSE sent[ch]

(* a channel layer that hands the consumer the newest message of its       *)
(* channel first                                                           *)
DeliverPriceUpdate_newest_first(ch) ==
    /\ ~consumers[ch].closed
    /\ mailbox[ch] # <<>>
    /\ LET newest == mailbox[ch][Len(mailbox[ch])]
       IN  sent' = [sent EXCEPT ![ch] =
               send_price_update(ch, newest.symbol, newest.price_data)]
    /\ mailbox' = [mailbox EXCEPT ![ch] = SubSeq(@, 1, Len(@) - 1)]
    /\ UNCHANGED <<simVars, consumers, connections, subscriptions, price_updates,
                   commands, last, handled, ledgerVars, priceVars, matchVars>>

(* the consumer of an open connection takes the oldest message of its      *)
(* channel                                                                 *)
DeliverPriceUpdate(ch) ==
    /\ ~consumers[ch].closed
    /\ mailbox[ch] # <<>>
    /\ sent' = [sent EXCEPT ![ch] =
           send_price_update(ch, Head(mailbox[ch]).symbol,
                             Head(mailbox[ch]).price_data)]
    /\ mailbox' = [mailbox EXCEPT ![ch] = Tail(@)]
    /\ UNCHANGED <<simVars, consumers, connections, subscriptions, price_updates,
                   commands, last, handled, ledgerVars, priceVars, matchVars>>

(* WebSocketConnection.disconnect that saves the time stamp only *)
disconnect_status_kept(connection) == connection

(* WebSocketConnection.disconnect on the instance, which is then saved     *)
(* whole                                                                   *)
disconnect(connection) == [connection EXCEPT !.status = "disconnected"]

(* MarketDataConsumer.disconnect and cleanup_connection: the instance is   *)
(* saved over the row, and every active subscription of the user of the    *)
(* instance is deactivated.  Nothing is sent, and what the channel layer   *)
(* holds for the consumer is never taken.                                  *)
Disconnect(ch) ==
    /\ ~consumers[ch].closed
    /\ LET connection == disconnect(consumers[ch].connection)
       IN  /\ consumers' = [consumers EXCEPT ![ch].connection = connection,
                                             ![ch].closed = TRUE]
           /\ connections' = [connections EXCEPT ![ch] = connection]
           /\ subscriptions' = {sub \in subscriptions :
                                   Some(sub[1]) # connection.user}
    /\ UNCHANGED <<simVars, sent, mailbox, price_updates, commands, last, handled,
                   ledgerVars, priceVars, matchVars>>

(* MarketDataService.publish_market_event: the broker takes the message of *)
(* a market event of the symbol                                            *)
PublishMarketEvent(symbol) ==
    /\ ticks < MaxUpdates
    /\ ticks' = ticks + 1
    /\ price_updates' = Append(price_updates,
           [type |-> "market_alert", symbol |-> symbol, severity |-> "high"])
    /\ UNCHANGED <<simVars, consumers, connections, subscriptions, sent, mailbox,
                   commands, last, handled, ledgerVars, price_data, update,
                   matchVars>>

(* OrderService._publish_order_update for an order of the user: order      *)
(* user_id is the order of user user_id                                    *)
PublishOrderUpdate(user_id) ==
    /\ ticks < MaxUpdates
    /\ ticks' = ticks + 1
    /\ price_updates' = Append(price_updates,
           [type |-> "order_update", user_id |-> user_id,
            data |-> [type |-> "order_executed", order_id |-> user_id,
                      status |-> "filled"]])
    /\ UNCHANGED <<simVars, consumers, connections, subscriptions, sent, mailbox,
                   commands, last, handled, ledgerVars, price_data, update,
                   matchVars>>

(* the message the dispatcher sends to a connection for a message of the   *)
(* broker                                                                  *)
websocket_message(message) ==
    IF message.type = "price_update"
    THEN [type |-> "send_price_update", symbol |-> message.symbol,
          price_data |-> message]
    ELSE IF message.type = "market_alert"
    THEN [type |-> "send_market_alert", alert_data |-> message]
    ELSE [type |-> "send_order_update", order_data |-> message.data]

(* the connections the dispatcher sends a message of the broker to: the    *)
(* authenticated connection rows of the users with an active subscription  *)
(* to the symbol, for an order update those of the user of the message     *)
target_connections(message) ==
    LET users == IF message.type = "order_update"
                 THEN {message.user_id}
                 ELSE _get_subscribed_users(message.symbol)
    IN  UNION {_get_user_connections(user_id) : user_id \in users}

(* a dispatcher whose loop over the connections ends with the first send   *)
(* that fails, taken to be the first send of the loop                      *)
send_to_websockets_until_failure(targets, failed, message) ==
    [ch \in Channels |->
        IF ch \in targets /\ failed = {}
        THEN Append(mailbox[ch], message)
        ELSE mailbox[ch]]

(* RedisPubSubService._send_to_websocket for each of the connections: the  *)
(* channel layer after the sends, those to the connections of failed       *)
(* having raised                                                           *)
send_to_websockets(targets, failed, message) ==
    [ch \in Channels |->
        IF ch \in targets \ failed
        THEN Append(mailbox[ch], message)
        ELSE mailbox[ch]]

(* RedisPubSubService._handle_redis_message for the oldest message of the  *)
(* broker, with the sends to the connections of failed raising             *)
HandleRedisMessage(failed) ==
    /\ price_updates # <<>>
    /\ LET message == Head(price_updates)
           targets == target_connections(message)
       IN  /\ failed \subseteq targets
           /\ mailbox' = send_to_websockets(targets, failed,
                                            websocket_message(message))
           /\ handled' = Some([message |-> message, targets |-> targets,
                               failed |-> failed,
                               closed |-> {ch \in Channels : consumers[ch].closed}])
    /\ price_updates' = Tail(price_updates)
    /\ UNCHANGED <<simVars, consumers, connections, subscriptions, sent, commands, last,
                   ledgerVars, priceVars, matchVars>>

(* MarketDataConsumer.send_market_alert: what the client has been sent     *)
(* after it                                                                *)
send_market_alert(ch, alert_data) == Append(sent[ch], alert_data)

(* MarketDataConsumer.send_order_update *)
send_order_update(ch, order_data) == Append(sent[ch], order_data)

(* the consumer of an open connection takes the oldest message of its      *)
(* channel, of whatever kind                                               *)
Deliver(ch) ==
    /\ ~consumers[ch].closed
    /\ mailbox[ch] # <<>>
    /\ LET message == Head(mailbox[ch])
       IN  sent' = [sent EXCEPT ![ch] =
               IF message.type = "send_price_update"
               THEN send_price_update(ch, message.symbol, message.price_data)
               ELSE IF message.type = "send_market_alert"
               THEN send_market_alert(ch, message.alert_data)
               ELSE send_order_update(ch, message.order_data)]
    /\ mailbox' = [mailbox EXCEPT ![ch] = Tail(@)]
    /\ UNCHANGED <<simVars, consumers, connections, subscriptions, price_updates,
                   commands, last, handled, ledgerVars, priceVars, matchVars>>

----------------------------------------------------------------------------
(* Order placement.                                                        *)
(*                                                                         *)
(* OrderService.place_order runs in one transaction: the row it creates    *)
(* and the row submit() saves are seen by nobody else before the commit.   *)

(* Order.objects.create of place_order: the row of a pending order *)
create_order(user, order_data) ==
    [id |-> Len(orders) + 1, user |-> user,
     symbol |-> upper(ValueOf(order_data.symbol)),
     side |-> ValueOf(order_data.side),
     order_type |-> order_type_of(order_data),
     price |-> IF truthy(order_data.price) THEN order_data.price ELSE None]
    @@ NewOrder(ValueOf(order_data.quantity))

(* OrderService._submit_to_exchange on the created order: submit() saves,  *)
(* then the new_order message is published; what either raises is raised   *)
(* again.  The table and the channel it leaves, and "ok" or the error.     *)
_submit_to_exchange(o, t, submit_ok, redis_ok) ==
    IF ~submit_ok
    THEN [orders |-> Append(orders, o), published |-> published,
          result |-> "DatabaseError"]
    ELSE IF ~redis_ok
    THEN [orders |-> Append(orders, submit(o, t)), published |-> published,
          result |-> "ConnectionError"]
    ELSE [orders |-> Append(orders, submit(o, t)),
          published |-> Append(published,
              [action |-> "new_order", order_id |-> o.id, user_id |-> o.user]),
          result |-> "ok"]

(* place_order without the transaction: every save is committed at once *)
transaction_autocommit(table, written, raised) == written

(* transaction.atomic around place_order: the table after the call is the  *)
(* one written when the call returns, and the one before the call when it  *)
(* raises                                                                  *)
transaction_atomic(table, written, raised) ==
    IF raised THEN table ELSE written

(* OrderService.place_order: the table and the channel after the call, and *)
(* "ok" or the error raised                                                *)
service_place_order(user, order_data, t, submit_ok, redis_ok) ==
    LET validation == _validate_order_data(order_data)
    IN  IF validation # "ok"
        THEN [orders |-> orders, published |-> published, result |-> validation]
        ELSE LET r == _submit_to_exchange(create_order(user, order_data), t,
                                          submit_ok, redis_ok)
             IN  [orders |-> transaction_atomic(orders, r.orders, r.result # "ok"),
                  published |-> r.published,
                  result |-> r.result]

(* a call of place_order; submit() or the publish may fail *)
PlaceOrder(user, order_data, submit_ok, redis_ok) ==
    /\ now < MaxClock
    /\ now' = now + 1
    /\ call' = [op |-> "place_order", quantity |-> 0]
    /\ LET r == service_place_order(user, order_data, now + 1,
                                    submit_ok, redis_ok)
       IN  /\ orders' = r.orders
           /\ published' = r.published
           /\ result' = r.result
    /\ UNCHANGED <<simVars, order, executions, before, fills, priceVars,
                   order_executions, market_data, current_prices,
                   pending_orders, cycle_batch, processed, sessionVars>>

----------------------------------------------------------------------------
(* The simulator's life cycle.                                             *)
(*                                                                         *)
(* A call of start_simulation that finds the simulator stopped gathers     *)
(* three loops.  A loop is suspended either before the test of its while,  *)
(* when it was just created or sleeps, or in one of the awaits of a pass:  *)
(* one per symbol in the price loop, the read of the pending orders and    *)
(* one per order in the order loop, the generation of the event in the     *)
(* event loop.                                                             *)

LoopKinds == {"price", "orders", "events"}

(* the number of awaits a pass of a loop may have before its sleep: the    *)
(* order loop finds no order or a full table, the event loop generates an  *)
(* event or none                                                           *)
units(kind) ==
    IF kind = "price" THEN {Cardinality(Symbols)}
    ELSE IF kind = "orders" THEN {1, 1 + MaxOrders}
    ELSE {0, 1}

(* a loop whose while never ends *)
loop_continues_always(running) == TRUE

(* the test of the while of the three loops: while self.is_running *)
loop_continues(running) == running

(* asyncio.gather of start_simulation: the three loops are created and     *)
(* the call waits for them                                                 *)
gather ==
    [status |-> "gathering",
     loops |-> [kind \in LoopKinds |-> [pc |-> "waiting", left |-> 0]]]

(* task.cancel() as it reaches a loop: CancelledError is raised at the     *)
(* await the loop is suspended in, and no except clause of the loop        *)
(* catches it.  The database call of the await goes on in its thread, the  *)
(* awaits the pass had still to make are never made.                       *)
task_cancel(loop) ==
    IF loop.pc = "working" THEN [pc |-> "cancelled", left |-> loop.left - 1]
    ELSE IF loop.pc = "waiting" THEN [pc |-> "cancelled", left |-> 0]
    ELSE loop

(* ExchangeSimulator.start_simulation: nothing when the simulator is       *)
(* running                                                                 *)
StartSimulation ==
    /\ IF is_running
       THEN UNCHANGED <<is_running, runs>>
       ELSE /\ Len(runs) < MaxStarts
            /\ is_running' = TRUE
            /\ runs' = Append(runs, gather)
    /\ UNCHANGED <<ledgerVars, priceVars, matchVars, sessionVars>>

(* ExchangeSimulator.stop_simulation *)
StopSimulation ==
    /\ is_running' = FALSE
    /\ UNCHANGED <<runs, ledgerVars, priceVars, matchVars, sessionVars>>

(* a loop is resumed before the test of its while: it leaves the while, or *)
(* starts a pass and is suspended in its first await, or in its sleep when *)
(* the pass has none                                                       *)
WakeLoop(run, kind) ==
    /\ run \in DOMAIN runs
    /\ runs[run].loops[kind].pc = "waiting"
    /\ IF loop_continues(is_running)
       THEN \E n \in units(kind) :
               runs' = [runs EXCEPT ![run].loops[kind] =
                           IF n = 0 THEN @ ELSE [pc |-> "working", left |-> n]]
       ELSE runs' = [runs EXCEPT ![run].loops[kind] =
                        [pc |-> "exited", left |-> 0]]
    /\ UNCHANGED <<is_running, ledgerVars, priceVars, matchVars, sessionVars>>

(* the await a loop is suspended in completes: the loop goes on to the     *)
(* next await of the pass, or to its sleep after the last                  *)
CompleteUnit(run, kind) ==
    /\ run \in DOMAIN runs
    /\ runs[run].loops[kind].pc = "working"
    /\ runs' = [runs EXCEPT ![run].loops[kind] =
                   IF @.left = 1 THEN [pc |-> "waiting", left |-> 0]
                   ELSE [pc |-> "working", left |-> @.left - 1]]
    /\ UNCHANGED <<is_running, ledgerVars, priceVars, matchVars, sessionVars>>

(* the gather of a call of start_simulation ends when its three loops have *)
(* left their while, and the call returns                                  *)
GatherReturns(run) ==
    /\ run \in DOMAIN runs
    /\ runs[run].status = "gathering"
    /\ \A kind \in LoopKinds : runs[run].loops[kind].pc = "exited"
    /\ runs' = [runs EXCEPT ![run].status = "returned"]
    /\ UNCHANGED <<is_running, ledgerVars, priceVars, matchVars, sessionVars>>

(* Command._run_with_timeout after its sleep: stop_simulation, then        *)
(* task.cancel() of the one call of start_simulation the command made,     *)
(* with no await in between                                                *)
_run_with_timeout ==
    /\ Len(runs) = 1
    /\ runs[1].status = "gathering"
    /\ is_running' = FALSE
    /\ runs' = [runs EXCEPT ![1] =
                   [status |-> "cancelled",
                    loops |-> [kind \in LoopKinds |-> task_cancel(@.loops[kind])]]]
    /\ UNCHANGED <<ledgerVars, priceVars, matchVars, sessionVars>>

----------------------------------------------------------------------------
(* The ledger: any sequence of calls on one order *)

LedgerInit ==
    /\ order \in {NewOrder(qty) : qty \in Quantities}
    /\ executions = <<>>
    /\ published = <<>>
    /\ now = 0
    /\ call = [op |-> "create", quantity |-> 0]
    /\ result = "ok"
    /\ before = order
    /\ fills = <<>>

PriceInit ==
    /\ \E volume \in [Symbols -> InitialVolumes], trend \in [Symbols -> Trends] :
          price_data = _initialize_price_data(volume, trend)
    /\ update = None
    /\ ticks = 0

(* the simulator as __init__ leaves it: not running, never started *)
SimulatorIdle ==
    /\ is_running = FALSE
    /\ runs = <<>>

(* no order placed, no price generated, no cycle run *)
MatchIdle ==
    /\ orders = <<>>
    /\ order_executions = <<>>
    /\ market_data = [sym \in OrderSymbols |-> None]
    /\ current_prices = [sym \in Symbols |-> 3]
    /\ pending_orders = <<>>
    /\ cycle_batch = <<>>
    /\ processed = <<>>

(* every consumer connected, nothing received and nothing published *)
SessionInit ==
    /\ consumers = [ch \in Channels |-> NewConsumer]
    /\ connections = [ch \in Channels |-> create_connection_record]
    /\ subscriptions = {}
    /\ sent = [ch \in Channels |-> <<>>]
    /\ mailbox = [ch \in Channels |-> <<>>]
    /\ price_updates = <<>>
    /\ commands = 0
    /\ last = None
    /\ handled = None

Init ==
    /\ LedgerInit
    /\ SimulatorIdle
    /\ price_data = _initialize_price_data([sym \in Symbols |-> 100000],
                                           [sym \in Symbols |-> 0])
    /\ update = None
    /\ ticks = 0
    /\ MatchIdle
    /\ SessionInit

Next ==
    \/ Submit
    \/ \E q \in FillQuantities, p \in FillPrices : Fill(q, p)
    \/ Cancel
    \/ Reject
    \/ \E q \in FillQuantities, p \in FillPrices, ok \in BOOLEAN : ExecuteOrder(q, p, ok)
    \/ \E ok \in BOOLEAN : CancelOrder(ok)

Spec == Init /\ [][Next]_vars

(* The order service: an order that is submitted, executed and cancelled   *)
(* through OrderService only                                               *)

NextService ==
    \/ Submit
    \/ \E q \in FillQuantities, p \in FillPrices, ok \in BOOLEAN : ExecuteOrder(q, p, ok)
    \/ \E ok \in BOOLEAN : CancelOrder(ok)

ServiceSpec == Init /\ [][NextService]_vars

----------------------------------------------------------------------------
(* The price process: any sequence of price updates *)

InitPrices ==
    /\ PriceInit
    /\ SimulatorIdle
    /\ order = NewOrder(MaxQty)
    /\ executions = <<>>
    /\ published = <<>>
    /\ now = 0
    /\ call = [op |-> "create", quantity |-> 0]
    /\ result = "ok"
    /\ before = order
    /\ fills = <<>>
    /\ MatchIdle
    /\ SessionInit

NextPrices == \E sym \in Symbols : Tick(sym)

PriceSpec == InitPrices /\ [][NextPrices]_vars

----------------------------------------------------------------------------
(* The matching loop: cycles, price updates and cancellations interleaved *)

InitMatch ==
    /\ \E book \in [OrderIds -> OrderBook] :
          /\ orders = [i \in OrderIds |-> [book[i] EXCEPT !.id = i]]
          /\ order_executions = [i \in OrderIds |-> ExecutionsOf(book[i])]
    /\ market_data = [sym \in OrderSymbols |-> None]
    /\ current_prices = [sym \in Symbols |-> 3]
    /\ pending_orders = <<>>
    /\ cycle_batch = <<>>
    /\ processed = <<>>
    /\ order = NewOrder(MaxQty)
    /\ executions = <<>>
    /\ published = [i \in OrderIds |-> <<>>]
    /\ now = 0
    /\ call = [op |-> "create", quantity |-> 0]
    /\ result = "ok"
    /\ before = order
    /\ fills = <<>>
    /\ price_data = _initialize_price_data([sym \in Symbols |-> 100000],
                                           [sym \in Symbols |-> 0])
    /\ update = None
    /\ ticks = 0
    /\ SessionInit
    /\ SimulatorIdle

NextMatch ==
    \/ \E sym \in TradedSymbols, quote \in Quotes : PriceUpdate(sym, quote)
    \/ StartCycle
    \/ ProcessNextOrder
    \/ \E id \in OrderIds : CancelOrderById(id)

MatchSpec == InitMatch /\ [][NextMatch]_vars

----------------------------------------------------------------------------
(* The sessions: client commands, published price updates, the dispatcher  *)
(* and the deliveries of the channel layer interleaved                     *)

InitSessions ==
    /\ SessionInit
    /\ SimulatorIdle
    /\ MatchIdle
    /\ order = NewOrder(MaxQty)
    /\ executions = <<>>
    /\ published = <<>>
    /\ now = 0
    /\ call = [op |-> "create", quantity |-> 0]
    /\ result = "ok"
    /\ before = order
    /\ fills = <<>>
    /\ price_data = _initialize_price_data([sym \in Symbols |-> 100000],
                                           [sym \in Symbols |-> 0])
    /\ update = None
    /\ ticks = 0

NextSessions ==
    \/ \E ch \in Channels, token \in Tokens : HandleAuth(ch, token)
    \/ \E ch \in Channels, symbols \in SymbolLists : HandleSubscribe(ch, symbols)
    \/ \E ch \in Channels, symbols \in SymbolLists : HandleUnsubscribe(ch, symbols)
    \/ \E ch \in Channels, request \in OrderRequests : HandlePlaceOrder(ch, request)
    \/ \E symbol \in PushSymbols : PublishPriceUpdate(symbol)
    \/ HandlePriceUpdate
    \/ \E ch \in Channels : DeliverPriceUpdate(ch)

SessionSpec == InitSessions /\ [][NextSessions]_vars

(* The subscriptions: auth, subscribe and unsubscribe commands of two      *)
(* connections, with lists of one and of two symbols                       *)

ValidTokens == {"token1", "token2"}

(* a symbol, a symbol in lower case, two symbols, and a symbol listed twice *)
SubscribeLists ==
    {<<"AAPL">>, <<"msft">>, <<"AAPL", "GOOGL">>, <<"MSFT", "MSFT">>}

NextSubscribe ==
    \/ \E ch \in Channels, token \in ValidTokens : HandleAuth(ch, token)
    \/ \E ch \in Channels, symbols \in SubscribeLists : HandleSubscribe(ch, symbols)
    \/ \E ch \in Channels, symbols \in SubscribeLists : HandleUnsubscribe(ch, symbols)

SubscribeSpec == InitSessions /\ [][NextSubscribe]_vars

(* The commands: what a connection may send, well formed or not *)

PlaceOrderRequests ==
    {OrderRequest(Some("AAPL"), Some("buy"), Some(MaxQty), None, None),
     OrderRequest(Some("AAPL"), Some("sell"), Some(MaxQty), Some("limit"), Some(3)),
     OrderRequest(None, Some("buy"), Some(MaxQty), None, None),
     OrderRequest(Some("AAPL"), None, Some(MaxQty), None, None),
     OrderRequest(Some("AAPL"), Some("buy"), Some(0), None, None),
     OrderRequest(Some("AAPL"), Some("hold"), Some(MaxQty), None, None),
     OrderRequest(Some("AAPL"), Some("buy"), Some(0 - 1), None, None),
     OrderRequest(Some("AAPL"), Some("buy"), Some(MaxQty), Some("limit"), None),
     OrderRequest(Some("AAPL"), Some("buy"), Some(MaxQty), Some("limit"), Some(0 - 1)),
     OrderRequest(Some("AAPL"), Some("buy"), Some(MaxQty), None, Some(0))}

Payloads ==
    {"not json", "[]", "{}", "{\"type\": \"bogus\"}", "{\"type\": \"ping\"}"}

NextCommands ==
    \/ \E ch \in Channels, token \in Tokens : HandleAuth(ch, token)
    \/ \E ch \in Channels : HandleSubscribe(ch, <<"AAPL">>)
    \/ \E ch \in Channels, request \in PlaceOrderRequests : HandlePlaceOrder(ch, request)
    \/ \E ch \in Channels, text_data \in Payloads : ReceiveText(ch, text_data)

CommandSpec == InitSessions /\ [][NextCommands]_vars

(* The dispatcher: price updates, market events and order updates          *)
(* published while connections authenticate, subscribe and disconnect, and *)
(* sends of the dispatcher that fail                                       *)

DispatchLists == {<<"AAPL">>, <<"msft">>}

NextDispatch ==
    \/ \E ch \in Channels, token \in ValidTokens : HandleAuth(ch, token)
    \/ \E ch \in Channels, symbols \in DispatchLists : HandleSubscribe(ch, symbols)
    \/ \E ch \in Channels : Disconnect(ch)
    \/ \E symbol \in PushSymbols : PublishPriceUpdate(symbol)
    \/ \E symbol \in PushSymbols : PublishMarketEvent(symbol)
    \/ \E user_id \in Users : PublishOrderUpdate(user_id)
    \/ \E failed \in SUBSET Channels : HandleRedisMessage(failed)
    \/ \E ch \in Channels : Deliver(ch)

DispatchSpec == InitSessions /\ [][NextDispatch]_vars

(* The unsubscriptions: connections that authenticate, subscribe,          *)
(* unsubscribe and disconnect while price updates are published,           *)
(* dispatched and delivered                                                *)

NextUnsubscribe ==
    \/ \E ch \in Channels, token \in ValidTokens : HandleAuth(ch, token)
    \/ \E ch \in Channels, symbols \in DispatchLists : HandleSubscribe(ch, symbols)
    \/ \E ch \in Channels, symbols \in DispatchLists : HandleUnsubscribe(ch, symbols)
    \/ \E ch \in Channels : Disconnect(ch)
    \/ \E symbol \in PushSymbols : PublishPriceUpdate(symbol)
    \/ HandlePriceUpdate
    \/ \E ch \in Channels : DeliverPriceUpdate(ch)

UnsubscribeSpec == InitSessions /\ [][NextUnsubscribe]_vars

(* The publisher: a run of price updates of one symbol published while two *)
(* connections authenticate and subscribe, dispatched and delivered        *)

NextOrdering ==
    \/ \E ch \in Channels, token \in ValidTokens : HandleAuth(ch, token)
    \/ \E ch \in Channels : HandleSubscribe(ch, <<"AAPL">>)
    \/ publish_price_update("AAPL", MaxPublished)
    \/ HandlePriceUpdate
    \/ \E ch \in Channels : DeliverPriceUpdate(ch)

OrderingSpec == InitSessions /\ [][NextOrdering]_vars

(* The placements: calls of place_order of two users with well formed and  *)
(* malformed order data, in which the save of submit() and the publish may *)
(* fail                                                                    *)

NextPlace ==
    \E user \in Users, order_data \in PlaceOrderRequests,
       submit_ok \in BOOLEAN, redis_ok \in BOOLEAN :
        PlaceOrder(user, order_data, submit_ok, redis_ok)

PlaceSpec == InitSessions /\ [][NextPlace]_vars

----------------------------------------------------------------------------
(* The simulator: calls of start_simulation and stop_simulation and the    *)
(* end of a timed run, interleaved with the steps of the loops             *)

NextSimulator ==
    \/ StartSimulation
    \/ StopSimulation
    \/ \E run \in 1 .. MaxStarts, kind \in LoopKinds : WakeLoop(run, kind)
    \/ \E run \in 1 .. MaxStarts, kind \in LoopKinds : CompleteUnit(run, kind)
    \/ \E run \in 1 .. MaxStarts : GatherReturns(run)
    \/ _run_with_timeout

SimulatorSpec == InitSessions /\ [][NextSimulator]_vars

(* every call of start_simulation has returned *)
AllReturned == \A run \in DOMAIN runs : runs[run].status = "returned"

(* The simulator started and stopped, and started again only when the call *)
(* before has returned; every sleep and every await of a loop completes    *)

NextLifecycle ==
    \/ AllReturned /\ StartSimulation
    \/ StopSimulation
    \/ \E run \in 1 .. MaxStarts, kind \in LoopKinds : WakeLoop(run, kind)
    \/ \E run \in 1 .. MaxStarts, kind \in LoopKinds : CompleteUnit(run, kind)
    \/ \E run \in 1 .. MaxStarts : GatherReturns(run)

LifecycleSpec ==
    /\ InitSessions
    /\ [][NextLifecycle]_vars
    /\ \A run \in 1 .. MaxStarts :
           /\ WF_vars(GatherReturns(run))
           /\ \A kind \in LoopKinds :
                  /\ WF_vars(WakeLoop(run, kind))
                  /\ WF_vars(CompleteUnit(run, kind))

----------------------------------------------------------------------------
(* Properties of the order ledger *)

TerminalStatus == {"filled", "cancelled", "rejected", "expired"}

ActiveStatus == {"pending", "submitted", "partial"}

RECURSIVE SumQuantity(_)
SumQuantity(fs) ==
    IF fs = <<>> THEN 0 ELSE fs[1][1] + SumQuantity(Tail(fs))

RECURSIVE SumValue(_)
SumValue(fs) ==
    IF fs = <<>> THEN 0 ELSE fs[1][1] * fs[1][2] + SumValue(Tail(fs))

(* C1: once the status is filled, cancelled, rejected or expired, every    *)
(* submit, fill, cancel or reject fails and leaves the order as it was.    *)
C1_TerminalIsFinal ==
    (call.op \in {"submit", "fill", "cancel", "reject"}
        /\ before.status \in TerminalStatus)
    => (order = before /\ result \in {"InvalidState", "OverFill"})

(* C2: 0 <= filled_quantity <= quantity in every state, whatever fill      *)
(* quantity is passed.                                                     *)
C2_FilledWithinQuantity ==
    0 <= order.filled_quantity /\ order.filled_quantity <= order.quantity

(* C3: after successful fills of positive quantities, which sum to the     *)
(* order's filled_quantity, average_fill_price is the quantity-weighted    *)
(* mean of the fill prices (as a Decimal of the field's scale: sum of      *)
(* qty*price over sum of qty, correctly rounded).                          *)
C3_AverageIsWeightedMean ==
    (/\ fills # <<>>
     /\ \A i \in 1 .. Len(fills) : fills[i][1] > 0
     /\ order.filled_quantity = SumQuantity(fills))
    => order.average_fill_price =
           Some(RoundDiv(DecimalScale * SumValue(fills), SumQuantity(fills)))

C5_ActiveIsSubmittedOrPartial ==
    (/\ call.op \in {"fill", "cancel"}
     /\ call.op = "fill" => call.quantity > 0
     /\ before.status \notin {"submitted", "partial"})
    => (result = "InvalidState" /\ order = before)

(* C5 amended: fill and cancel succeed only in status pending, submitted   *)
(* or partial; in every other status they fail with InvalidState and leave *)
(* the order unchanged.                                                    *)
C5_InactiveFillCancelFail ==
    call.op \in {"fill", "cancel"}
    => /\ result = "ok" => before.status \in ActiveStatus
       /\ before.status \notin ActiveStatus
              => (result = "InvalidState" /\ order = before)

C5_Witness ==
    /\ call.op = "cancel"
    /\ before.status = "filled"
    /\ result = "InvalidState"
    /\ order = before

(* C6: a fill or cancel attempted on an order that is already filled or    *)
(* cancelled raises (cancel_order returns False), and changes neither the  *)
(* order nor its executions, and publishes nothing.                        *)
C6_SecondAttemptRejected ==
    [][ (order.status \in {"filled", "cancelled"}
            /\ call'.op \in {"fill", "cancel", "execute_order", "cancel_order"})
        => /\ order' = order
           /\ executions' = executions
           /\ published' = published
           /\ result' = IF call'.op = "cancel_order" THEN "False"
                        ELSE "InvalidState" ]_vars

C6_Witness ==
    /\ call.op = "cancel_order"
    /\ before.status = "cancelled"
    /\ result = "False"
    /\ order = before

(* C7 as stated: a fill whose quantity exceeds the remaining quantity is   *)
(* rejected with OverFill, the order is unchanged and no execution row     *)
(* remains.                                                                *)
C7_ExcessFillIsOverFill ==
    [][ (call'.op \in {"fill", "execute_order"}
            /\ call'.quantity > order.quantity - order.filled_quantity)
        => /\ result' = "OverFill"
           /\ order' = order
           /\ executions' = executions ]_vars

(* C7 amended: a fill whose quantity exceeds the remaining quantity is     *)
(* rejected, with OverFill on an active order and with InvalidState on an  *)
(* inactive one; the order is unchanged and no execution row remains.      *)
C7_ExcessFillRejected ==
    [][ (call'.op \in {"fill", "execute_order"}
            /\ call'.quantity > order.quantity - order.filled_quantity)
        => /\ result' = IF order.status \in ActiveStatus
                        THEN "OverFill" ELSE "InvalidState"
           /\ order' = order
           /\ executions' = executions ]_vars

C7_Witness ==
    /\ call.op = "execute_order"
    /\ before.status = "partial"
    /\ call.quantity > before.quantity - before.filled_quantity
    /\ result = "OverFill"
    /\ order = before
    /\ Len(executions) = 1

(* C8: after a successful fill the status is filled, with filled_at set,   *)
(* exactly when filled_quantity equals quantity, and partial, with         *)
(* filled_at unset, otherwise.                                             *)
C8_StatusAfterFill ==
    (call.op \in {"fill", "execute_order"} /\ result = "ok")
    => IF order.filled_quantity = order.quantity
       THEN order.status = "filled" /\ order.filled_at # None
       ELSE order.status = "partial" /\ order.filled_at = None

(* C9: reject() never fails and sets the status to rejected from every     *)
(* status, touching nothing else.                                          *)
C9_RejectUnconditional ==
    /\ now < MaxClock => ENABLED Reject
    /\ call.op = "reject"
          => (result = "ok" /\ order = [before EXCEPT !.status = "rejected"])

C9_Witness ==
    /\ call.op = "reject"
    /\ before.status = "filled"
    /\ order.status = "rejected"

----------------------------------------------------------------------------
(* Properties of the price process *)

(* C10: for every symbol and after every tick, the current price is        *)
(* strictly positive and daily_low <= current price <= daily_high.         *)
C10_PriceWithinDailyRange ==
    \A sym \in Symbols :
        /\ price_data[sym].current_price > 0
        /\ price_data[sym].daily_low <= price_data[sym].current_price
        /\ price_data[sym].current_price <= price_data[sym].daily_high

(* a tick whose change fell below the minimum price, followed by a rise *)
C10_Witness ==
    /\ ticks = MaxTicks
    /\ \E sym \in Symbols :
          /\ update # None
          /\ ValueOf(update).symbol = sym
          /\ price_data[sym].daily_low = PriceUnit \div 100
          /\ price_data[sym].current_price > price_data[sym].daily_low
          /\ price_data[sym].current_price < price_data[sym].daily_high

----------------------------------------------------------------------------
(* Properties of the matching loop *)

(* the step is a turn of the loop of _process_pending_orders *)
OrderProcessed == pending_orders # <<>> /\ processed' # processed

LimitTrigger(o) ==
    /\ o.symbol \in DOMAIN current_prices
    /\ \/ o.side = "buy" /\ current_prices[o.symbol] <= ValueOf(o.price)
       \/ o.side = "sell" /\ current_prices[o.symbol] >= ValueOf(o.price)

RECURSIVE ExecutedQuantity(_)
ExecutedQuantity(rows) ==
    IF rows = <<>> THEN 0 ELSE rows[1].quantity + ExecutedQuantity(Tail(rows))

(* C11: when the matching cycle processes a submitted market order whose   *)
(* symbol has a persisted snapshot, the order is filled for its full       *)
(* quantity at the ask of the newest snapshot for a buy and at its bid for *)
(* a sell: the row is then filled and the order has exactly one execution  *)
(* row, of the order's quantity at that price.                             *)
C11_MarketOrderFilledAtSnapshot ==
    [][(/\ OrderProcessed
        /\ Head(pending_orders).order_type = "market"
        /\ Head(pending_orders).status = "submitted"
        /\ market_data[Head(pending_orders).symbol] # None)
       => LET o == Head(pending_orders)
              snapshot == ValueOf(market_data[o.symbol])
          IN  /\ orders'[o.id].status = "filled"
              /\ orders'[o.id].filled_quantity = o.quantity
              /\ order_executions'[o.id] =
                     <<[quantity |-> o.quantity,
                        price |-> IF o.side = "buy" THEN snapshot.ask
                                  ELSE snapshot.bid]>>]_vars

(* a market sell filled by the loop, in one execution of its quantity at   *)
(* the bid, below the current price                                        *)
C11_Witness ==
    \E i \in OrderIds :
        /\ orders[i].order_type = "market"
        /\ orders[i].side = "sell"
        /\ orders[i].status = "filled"
        /\ Len(order_executions[i]) = 1
        /\ order_executions[i][1].quantity = orders[i].quantity
        /\ order_executions[i][1].price < current_prices[orders[i].symbol]
        /\ \E k \in DOMAIN processed :
              processed[k] = [order_id |-> i, result |-> "ok"]

(* C12: when the matching cycle processes a partial market order whose     *)
(* symbol has a snapshot, it executes exactly the remaining quantity and   *)
(* the order is filled afterwards.                                         *)
C12_PartialMarketOrderCompleted ==
    [][(/\ OrderProcessed
        /\ Head(pending_orders).order_type = "market"
        /\ Head(pending_orders).status = "partial"
        /\ orders[Head(pending_orders).id] = Head(pending_orders)
        /\ market_data[Head(pending_orders).symbol] # None)
       => LET o == Head(pending_orders)
          IN  /\ Len(order_executions'[o.id]) = Len(order_executions[o.id]) + 1
              /\ order_executions'[o.id][Len(order_executions'[o.id])].quantity
                     = o.quantity - o.filled_quantity
              /\ orders'[o.id].status = "filled"]_vars

(* C13: an execution row is added to a limit order only by a turn of the   *)
(* loop taken while the trigger holds on the simulator's current price     *)
(* (buy: current price <= limit price, sell: current price >= limit        *)
(* price), and it is for the remaining quantity at exactly the limit       *)
(* price; a turn taken while the trigger does not hold leaves the row and  *)
(* its executions as they are.                                             *)
C13_LimitOrderExecutedOnTrigger ==
    [][/\ \A i \in OrderIds :
            (orders[i].order_type = "limit"
                /\ order_executions'[i] # order_executions[i])
            => /\ OrderProcessed
               /\ Head(pending_orders).id = i
               /\ LimitTrigger(orders[i])
               /\ order_executions'[i] =
                      Append(order_executions[i],
                             [quantity |-> remaining_quantity(orders[i]),
                              price |-> ValueOf(orders[i].price)])
               /\ orders'[i].status = "filled"
       /\ (/\ OrderProcessed
           /\ Head(pending_orders).order_type = "limit"
           /\ ~LimitTrigger(Head(pending_orders)))
          => /\ orders' = orders
             /\ order_executions' = order_executions]_vars

(* a limit buy filled at its limit price while the current price is lower, *)
(* next to a limit order of the same cycle that was not triggered          *)
C13_Witness ==
    \E i \in OrderIds :
        /\ orders[i].order_type = "limit"
        /\ orders[i].side = "buy"
        /\ orders[i].status = "filled"
        /\ order_executions[i][Len(order_executions[i])].price = ValueOf(orders[i].price)
        /\ current_prices[orders[i].symbol] < ValueOf(orders[i].price)
        /\ \E k \in DOMAIN processed :
              processed[k] = [order_id |-> i, result |-> "ok"]
        /\ \E k \in DOMAIN processed :
              /\ processed[k].result = "NotTriggered"
              /\ orders[processed[k].order_id].status = "submitted"
              /\ order_executions[processed[k].order_id] = <<>>

(* C14: the orders a cycle has processed and those it has still to process *)
(* are together the batch it read, in the order read, whatever happened to *)
(* the orders processed: a cycle ends only with every order of its batch   *)
(* processed.                                                              *)
C14_FailureDoesNotStopCycle ==
    [k \in 1 .. Len(processed) |-> processed[k].order_id]
        \o [k \in 1 .. Len(pending_orders) |-> pending_orders[k].id]
    = cycle_batch

(* a finished cycle whose first order failed and whose second order was    *)
(* executed                                                                *)
C14_Witness ==
    /\ pending_orders = <<>>
    /\ Len(processed) >= 2
    /\ processed[1].result \in {"OverFill", "InvalidState", "KeyError"}
    /\ processed[2].result = "ok"
    /\ orders[processed[2].order_id].status = "filled"

(* C15: a cancelled order never becomes filled afterwards, and the         *)
(* execution rows of an order never add up to more than its quantity.      *)
C15_NoFillAfterCancel ==
    [][\A i \in OrderIds :
          /\ orders[i].status = "cancelled" => orders'[i].status # "filled"
          /\ ExecutedQuantity(order_executions'[i]) <= orders'[i].quantity]_vars

----------------------------------------------------------------------------
(* Properties of the sessions *)

(* the step is the handling of a client command *)
CommandHandled == commands' = commands + 1

(* C16: every price update a consumer has sent to its client is for a      *)
(* symbol among the consumer's subscribed symbols, whatever the other      *)
(* consumers and users are subscribed to.                                  *)
C16_OnlySubscribedSymbolsPushed ==
    \A ch \in Channels :
        \A k \in DOMAIN sent[ch] :
            sent[ch][k].type = "price_update"
            => sent[ch][k].symbol \in consumers[ch].subscribed_symbols

(* a consumer that was pushed a price update of AAPL and is not subscribed *)
(* to MSFT, which another consumer of the same user is subscribed to       *)
C16_Witness ==
    \E ch \in Channels, other \in Channels :
        /\ sent[ch] # <<>>
        /\ sent[ch][Len(sent[ch])].type = "price_update"
        /\ sent[ch][Len(sent[ch])].symbol = "AAPL"
        /\ "MSFT" \notin consumers[ch].subscribed_symbols
        /\ other # ch
        /\ consumers[other].user = consumers[ch].user
        /\ "MSFT" \in consumers[other].subscribed_symbols

(* C17: a price update the dispatcher has handled was sent to every        *)
(* consumer that was authenticated and subscribed to its symbol when the   *)
(* dispatcher handled it.                                                  *)
C17_PushedToEverySubscribedSession ==
    handled # None
    => ValueOf(handled).subscribed \subseteq ValueOf(handled).targets

(* C18: after an auth command answered with auth_success the consumer is   *)
(* bound to the user of the token, and the connection row records that     *)
(* user with status authenticated, so that the lookup of the authenticated *)
(* connections of the user finds the channel.                              *)
C18_AuthenticatedSessionRegistered ==
    (/\ last # None
     /\ last.type = "auth"
     /\ sent[last.channel] # <<>>
     /\ sent[last.channel][1].type = "auth_success")
    => LET ch == last.channel
           user == get_user_from_token(last.argument)
       IN  /\ user # None
           /\ consumers[ch].user = user
           /\ consumers[ch].connection.status = "authenticated"
           /\ connections[ch].user = user
           /\ connections[ch].status = "authenticated"
           /\ ch \in _get_user_connections(ValueOf(user))

(* C19: an auth command without a token or with a token the validator      *)
(* refuses is answered with an error and leaves the consumer (user,        *)
(* subscribed symbols, connection), the connection rows and the            *)
(* subscriptions as they were, the connection open; an auth command with   *)
(* a valid token is answered with auth_success and binds the user, whatever *)
(* was refused before.                                                     *)
C19_FailedAuthChangesNothing ==
    [][(CommandHandled /\ last'.type = "auth")
       => LET ch == last'.channel
              user == get_user_from_token(last'.argument)
          IN  IF user = None
              THEN /\ Len(sent'[ch]) = 1
                   /\ sent'[ch][1].type = "error"
                   /\ consumers' = consumers
                   /\ ~consumers'[ch].closed
                   /\ connections' = connections
                   /\ subscriptions' = subscriptions
              ELSE /\ sent'[ch] = <<[type |-> "auth_success",
                                     user_id |-> ValueOf(user)]>>
                   /\ consumers'[ch].user = user]_vars

(* a refused auth command on a consumer that is bound to a user and has    *)
(* subscribed symbols                                                      *)
C19_Witness ==
    /\ last # None
    /\ last.type = "auth"
    /\ last.argument = "expired"
    /\ sent[last.channel] = <<error("Invalid token")>>
    /\ consumers[last.channel].user # None
    /\ consumers[last.channel].subscribed_symbols # {}

(* C20: a subscribe, unsubscribe or place_order command received while the *)
(* consumer has no user is answered with the error 'Authentication         *)
(* required' and changes nothing: no subscription, no subscribed symbol,   *)
(* no connection row and no order is created, removed or changed.          *)
C20_CommandsRequireAuthentication ==
    [][(/\ CommandHandled
        /\ last'.type \in {"subscribe", "unsubscribe", "place_order"}
        /\ consumers[last'.channel].user = None)
       => /\ sent'[last'.channel] = <<error("Authentication required")>>
          /\ consumers' = consumers
          /\ connections' = connections
          /\ subscriptions' = subscriptions
          /\ orders' = orders
          /\ published' = published]_vars

(* a subscribe command with a symbol refused on a consumer without user,   *)
(* while the other consumer is authenticated and subscribed                *)
C20_Witness ==
    /\ last # None
    /\ last.type = "subscribe"
    /\ last.argument # <<>>
    /\ consumers[last.channel].user = None
    /\ sent[last.channel] = <<error("Authentication required")>>
    /\ subscriptions # {}

----------------------------------------------------------------------------
(* Properties of the subscriptions *)

(* the active subscriptions of a user *)
ActiveSymbols(user) == {sub[2] : sub \in {x \in subscriptions : x[1] = user}}

(* the set that results from adding the symbols of the list *)
ResultingSet(subscribed_symbols, symbols) ==
    subscribed_symbols \cup {upper(symbols[k]) : k \in DOMAIN symbols}

LimitExceeded == error("Subscription limit exceeded")

(* the step is the handling of a subscribe command with symbols from a     *)
(* consumer that has a user                                                *)
SubscribeHandled ==
    /\ CommandHandled
    /\ last'.type = "subscribe"
    /\ last'.argument # <<>>
    /\ consumers[last'.channel].user # None

(* C21: a subscribe command is answered with the limit error exactly when  *)
(* the subscribed symbols together with the symbols of the command are     *)
(* more than max_subscriptions symbols; in every other case no error is    *)
(* sent and the subscribed symbols become that set.                        *)
C21_LimitExceededExactlyWhenOverCap ==
    [][SubscribeHandled
       => LET ch == last'.channel
              resulting == ResultingSet(consumers[ch].subscribed_symbols,
                                        last'.argument)
          IN  IF Cardinality(resulting) > max_subscriptions
              THEN sent'[ch] = <<LimitExceeded>>
              ELSE /\ \A k \in DOMAIN sent'[ch] : sent'[ch][k].type # "error"
                   /\ consumers'[ch].subscribed_symbols = resulting]_vars

(* C22: a subscribe command whose symbols would bring the subscribed       *)
(* symbols over max_subscriptions is answered with the limit error, and a  *)
(* subscribe command answered with the limit error leaves the consumer,    *)
(* the connection rows and the subscription rows as they were.             *)
C22_RejectedSubscribeChangesNothing ==
    [][SubscribeHandled
       => LET ch == last'.channel
              resulting == ResultingSet(consumers[ch].subscribed_symbols,
                                        last'.argument)
          IN  /\ Cardinality(resulting) > max_subscriptions
                 => sent'[ch] = <<LimitExceeded>>
              /\ sent'[ch] = <<LimitExceeded>>
                 => /\ consumers' = consumers
                    /\ connections' = connections
                    /\ subscriptions' = subscriptions]_vars

(* a subscribe command for one more symbol refused on a consumer that has  *)
(* max_subscriptions subscribed symbols, all with active rows              *)
C22_Witness ==
    /\ last # None
    /\ last.type = "subscribe"
    /\ sent[last.channel] = <<LimitExceeded>>
    /\ LET c == consumers[last.channel]
       IN  /\ c.user # None
           /\ Cardinality(c.subscribed_symbols) = max_subscriptions
           /\ \A k \in DOMAIN last.argument :
                  upper(last.argument[k]) \notin c.subscribed_symbols
           /\ c.subscribed_symbols \subseteq ActiveSymbols(ValueOf(c.user))

(* C23: no user has more than max_subscriptions active subscriptions,      *)
(* whatever the connections of the user subscribe to and in whatever order. *)
C23_CapIsPerUser ==
    \A user \in Users : Cardinality(ActiveSymbols(user)) <= max_subscriptions

(* C24: an unsubscribe command none of whose symbols is among the          *)
(* subscribed symbols changes nothing and is not answered with an error,   *)
(* and an unsubscribe command that repeats the command before it changes   *)
(* nothing either.                                                         *)
C24_UnsubscribeIdempotent ==
    [][(/\ CommandHandled
        /\ last'.type = "unsubscribe"
        /\ last'.argument # <<>>
        /\ consumers[last'.channel].user # None)
       => LET ch == last'.channel
              nothing_changes == /\ consumers' = consumers
                                 /\ connections' = connections
                                 /\ subscriptions' = subscriptions
          IN  /\ (\A k \in DOMAIN last'.argument :
                     last'.argument[k] \notin consumers[ch].subscribed_symbols)
                 => /\ nothing_changes
                    /\ \A k \in DOMAIN sent'[ch] : sent'[ch][k].type # "error"
              /\ (last # None /\ last = last')
                 => nothing_changes]_vars

(* an unsubscribe command that has removed nothing, repeating the command  *)
(* before it, after which the symbol has no active row and is not among    *)
(* the subscribed symbols                                                  *)
C24_Witness ==
    /\ last # None
    /\ last.type = "unsubscribe"
    /\ last.argument = <<"AAPL">>
    /\ consumers[last.channel].user # None
    /\ sent[last.channel] = <<>>
    /\ "AAPL" \notin consumers[last.channel].subscribed_symbols
    /\ consumers[last.channel].connection.subscription_count = 1

----------------------------------------------------------------------------
(* Properties of the commands *)

(* order fields that miss the symbol, the side or the quantity, name a     *)
(* side other than buy and sell, a quantity or price that is not positive, *)
(* or a limit order without price                                          *)
InvalidOrder(request) ==
    \/ request.symbol = None
    \/ request.side = None
    \/ request.quantity = None
    \/ request.side # None /\ ValueOf(request.side) \notin {"buy", "sell"}
    \/ request.quantity # None /\ ValueOf(request.quantity) <= 0
    \/ request.price # None /\ ValueOf(request.price) <= 0
    \/ request.order_type = Some("limit") /\ request.price = None

(* C25: a place_order command with invalid order fields from a consumer    *)
(* that has a user is answered with one error message, creates no order    *)
(* and leaves the connection open.                                         *)
C25_InvalidOrderRejected ==
    [][(/\ CommandHandled
        /\ last'.type = "place_order"
        /\ consumers[last'.channel].user # None
        /\ InvalidOrder(last'.argument))
       => LET ch == last'.channel
          IN  /\ Len(sent'[ch]) = 1
              /\ sent'[ch][1].type = "error"
              /\ orders' = orders
              /\ published' = published
              /\ ~consumers'[ch].closed]_vars

(* C26: a payload that json.loads takes for a dict with a type that is no  *)
(* command is answered with an error, a payload that it does not take for  *)
(* a dict is answered with the error of a parse failure; either way the    *)
(* consumer, the connection rows and the subscriptions are as they were    *)
(* and the connection is open.                                             *)
C26_BadPayloadAnsweredWithError ==
    [][(/\ CommandHandled
        /\ last'.type = "text"
        /\ json_loads(last'.argument).type # Some("ping"))
       => LET ch == last'.channel
              data == json_loads(last'.argument)
          IN  /\ Len(sent'[ch]) = 1
              /\ sent'[ch][1].type = "error"
              /\ data.kind # "dict"
                 => sent'[ch][1].message = "Invalid JSON format"
              /\ consumers' = consumers
              /\ connections' = connections
              /\ subscriptions' = subscriptions
              /\ ~consumers'[ch].closed]_vars

----------------------------------------------------------------------------
(* Properties of the dispatcher *)

C28_OrderUpdateOnlyToOwner ==
    \A ch \in Channels :
        \A k \in DOMAIN sent[ch] :
            sent[ch][k].type = "order_executed"
            => consumers[ch].user = Some(sent[ch][k].order_id)

(* C29: a market alert a consumer has sent to its client is for a symbol   *)
(* among the subscribed symbols of the consumer.                           *)
C29_MarketAlertOnlyToSubscribed ==
    \A ch \in Channels :
        \A k \in DOMAIN sent[ch] :
            sent[ch][k].type = "market_alert"
            => sent[ch][k].symbol \in consumers[ch].subscribed_symbols

(* the step is the dispatcher handling a message of the broker *)
MessageHandled == Len(price_updates') < Len(price_updates)

----------------------------------------------------------------------------
(* C31: when the dispatcher handles a message and the send to a connection *)
(* fails, the row of that connection is no longer authenticated after the  *)
(* step, so that the dispatcher sends later messages to it no more.        *)
C31_FailedSendMarksDisconnect ==
    [][MessageHandled
       => \A ch \in ValueOf(handled').failed :
              connections'[ch].status # "authenticated"]_vars

(* the connections the dispatcher sends a price update of the symbol to *)
PriceTargets(symbol) ==
    target_connections([type |-> "price_update", symbol |-> symbol])

(* C38: when a connection is closed, every other connection that the       *)
(* dispatcher sent the price updates of one of its subscribed symbols to   *)
(* is still sent them after the step.                                      *)
C38_DisconnectLeavesOtherSessions ==
    [][\A ch \in Channels :
          (~consumers[ch].closed /\ consumers'[ch].closed)
          => \A other \in Channels \ {ch}, symbol \in PushSymbols :
                 (/\ ~consumers[other].closed
                  /\ symbol \in consumers[other].subscribed_symbols
                  /\ other \in PriceTargets(symbol))
                 => other \in PriceTargets(symbol)']_vars

(* C39: when the reply to the last command of a connection is an           *)
(* unsubscribed reply, none of the symbols it lists is among the           *)
(* subscribed symbols of the connection, and no price update of such a     *)
(* symbol has been sent to the client after the reply.                     *)
C39_UnsubscribedSymbolRemoved ==
    \A ch \in Channels :
        (sent[ch] # <<>> /\ sent[ch][1].type = "unsubscribed")
        => \A k \in DOMAIN sent[ch][1].symbols :
               LET symbol == sent[ch][1].symbols[k]
               IN  /\ symbol \notin consumers[ch].subscribed_symbols
                   /\ \A j \in 2 .. Len(sent[ch]) :
                          ~(/\ sent[ch][j].type = "price_update"
                            /\ sent[ch][j].symbol = symbol)

(* the message is a price update *)
IsPriceUpdate(message) == message.type = "price_update"

(* the price updates of a connection in the order the client is sent them: *)
(* those sent since its last command, those the channel layer holds for    *)
(* its consumer, and those the broker holds                                *)
Stream(ch) ==
    SelectSeq(sent[ch], IsPriceUpdate)
    \o [k \in DOMAIN mailbox[ch] |-> mailbox[ch][k].price_data]
    \o SelectSeq(price_updates, IsPriceUpdate)

----------------------------------------------------------------------------
(* the sum of the quantities of the execution rows *)
RECURSIVE ExecutionQuantity(_)
ExecutionQuantity(rows) ==
    IF rows = <<>> THEN 0
    ELSE Head(rows).quantity + ExecutionQuantity(Tail(rows))

(* C34: the quantities of the execution rows of the order add up to its    *)
(* filled_quantity, and there are as many execution rows as successful     *)
(* fills.                                                                  *)
C34_ExecutionsMatchFills ==
    /\ ExecutionQuantity(executions) = order.filled_quantity
    /\ Len(executions) = Len(fills)

(* the step is a call of execute_order or cancel_order *)
ServiceCall == now' = now + 1 /\ call'.op \in {"execute_order", "cancel_order"}

(* the call of the step has filled or cancelled the order *)
ServiceCallSucceeded == result' \in {"ok", "True"}

(* the step has published one message, an order update with the user of    *)
(* the order and the status and filled quantity the order has after it     *)
OneOrderUpdatePublished ==
    /\ Len(published') = Len(published) + 1
    /\ SubSeq(published', 1, Len(published)) = published
    /\ LET message == published'[Len(published')]
       IN  /\ message.action = "order_update"
           /\ message.user_id = order'.user
           /\ message.data.status = order'.status
           /\ message.data.filled_quantity = order'.filled_quantity

----------------------------------------------------------------------------
(* the step is a call of place_order *)
PlaceOrderCalled == now' = now + 1 /\ call'.op = "place_order"

(* C40: a call of place_order either returns, and then the table has one   *)
(* more order, with the status submitted and a submit time, and the        *)
(* channel one more message, the new_order message of that order, or it    *)
(* raises, and then the table of the orders is as it was before the call.  *)
C40_PlaceOrderAllOrNothing ==
    [][PlaceOrderCalled
       => IF result' = "ok"
          THEN /\ Len(orders') = Len(orders) + 1
               /\ SubSeq(orders', 1, Len(orders)) = orders
               /\ orders'[Len(orders')].status = "submitted"
               /\ orders'[Len(orders')].submitted_at # None
               /\ Len(published') = Len(published) + 1
               /\ published'[Len(published')].action = "new_order"
               /\ published'[Len(published')].order_id = orders'[Len(orders')].id
          ELSE orders' = orders]_vars

(* a call of place_order has raised because the publish failed, after a    *)
(* call that placed an order                                               *)
C40_Witness ==
    /\ call.op = "place_order"
    /\ result = "ConnectionError"
    /\ Len(orders) = 1
    /\ Len(published) = 1

----------------------------------------------------------------------------
(* Properties of the simulator's life cycle *)

(* the loop has left its while or was cancelled *)
Gone(loop) == loop.pc \in {"exited", "cancelled"}

(* C32: a loop that is gone has made every await of the pass it was in,    *)
(* and no loop starts a pass while the simulator is stopped.               *)
C32_StopCompletesWorkInFlight ==
    [][/\ \A run \in DOMAIN runs', kind \in LoopKinds :
              Gone(runs'[run].loops[kind]) => runs'[run].loops[kind].left = 0
       /\ \A run \in DOMAIN runs, kind \in LoopKinds :
              (/\ runs[run].loops[kind].pc = "waiting"
               /\ runs'[run].loops[kind].pc = "working")
              => is_running]_vars

(* C36: once the simulator is stopped after a start, every call of         *)
(* start_simulation eventually has returned, its three loops having left   *)
(* their while.                                                            *)
C36_StoppedSimulatorReturns ==
    (~is_running /\ runs # <<>>)
    ~> (\A run \in DOMAIN runs :
            /\ runs[run].status = "returned"
            /\ \A kind \in LoopKinds : runs[run].loops[kind].pc = "exited")

(* the call of start_simulation has returned after the stop *)
C36_Witness ==
    /\ ~is_running
    /\ Len(runs) = 1
    /\ runs[1].status = "returned"
    /\ \A kind \in LoopKinds : runs[1].loops[kind].pc = "exited"

(* the loops of the kind that have neither left their while nor been       *)
(* cancelled                                                               *)
Running(kind) ==
    {run \in DOMAIN runs : ~Gone(runs[run].loops[kind])}

(* C37: at most one loop of each kind is running, and start_simulation     *)
(* called on a running simulator starts no loop.                           *)
C37_OneLoopOfEachKind ==
    [][/\ \A kind \in LoopKinds : Cardinality(Running(kind)') <= 1
       /\ is_running => Len(runs') = Len(runs)]_vars
====
